---- MODULE Spec2Model ----
(***************************************************************************)
(* Model of the application installer of spy4x/dotfiles                    *)
(* (src/install-apps.ts, main) together with the helpers of shared.ts it   *)
(* calls (src/unnamed/part_005: runCommand, detectPackageManager,          *)
(* installPackages).                                                       *)
(*                                                                         *)
(* The output of commands is modelled as a sequence of tokens: `a + b` is  *)
(* a \o b and `s.includes(t)` is the occurrence of the tokens of t, in     *)
(* order and adjacent, inside s.  Hook commands are character strings, so  *)
(* that their replace and split are the real ones.                         *)
(*                                                                         *)
(* The catalog (apps.json) is read-only input.  Its length is fixed in     *)
(* Init; the descriptor of entry i is drawn when `for (const app of apps)` *)
(* reaches it.  Entry i carries the name i, so names identify entries.     *)
(* Every external command answers with a result drawn from a small set.    *)
(*                                                                         *)
(* Specifications: Spec / FairSpec and SpecApp run main over catalogs;     *)
(* SpecDetect runs the detection on every host; SpecPkgs runs              *)
(* installPackages, and SpecRepo the repository step of main, repeatedly   *)
(* on a host whose packages and repositories are followed.  SpecRepoApps   *)
(* runs main over applications with a repository, SpecNative over          *)
(* applications without a flatpak identifier, SpecFlatpak over             *)
(* applications with one and no repository, SpecSetup over hosts           *)
(* with every state of the Flathub remote, SpecEnv under every environment *)
(* of USER and HOME, SpecRun follows one call of runCommand.  SpecShell    *)
(* runs install-shell (src/unnamed/part_003) and SpecHib the hibernation   *)
(* setup (the second script of src/install-apps.ts), repeatedly on a host, *)
(* SpecPre the same for every user, answer, RAM and disk size.             *)
(***************************************************************************)
EXTENDS Integers, Sequences, FiniteSets, TLC

\* ---------------------------------------------------------------- bounds
\* catalog entries in a run of Spec (catalogs over CatalogDescriptors)
MaxApps == 2
\* catalog entries in a run of SpecApp (catalogs over all Descriptors)
MaxDetailedApps == 1
\* commands in a pre- or post-install hook list
MaxHooks == 2
\* identifiers in a list handed to installPackages
MaxPkgs == 2
\* bytes a child writes to one of its streams
MaxBytes == 2
\* runs of a script on one host
MaxRuns == 2
\* the RAM of a host of the hibernation setup, in half gibibytes
MaxRam == 4

\* ------------------------------------------------------------ text tokens
Absent == "<absent>"
NoApp == [name |-> 0]
NoManager == "<null>"
\* `const pkgManager` before line 40 has assigned it
Undetected == "<undetected>"

Includes(s, t) ==
  \E k \in 0..(Len(s) - Len(t)) : \A j \in 1..Len(t) : s[k + j] = t[j]

\* the strings that are rewritten (hook commands) are strings of characters
StartsWith(s, p) == Len(s) >= Len(p) /\ SubSeq(s, 1, Len(p)) = p

\* s.replace(/pat/g, val) for a literal pat and a val without "$": every
\* match, found from left to right in what the previous match left
RECURSIVE ReplaceAll(_, _, _)
ReplaceAll(s, pat, val) ==
  IF Len(s) < Len(pat) THEN s
  ELSE IF StartsWith(s, pat)
    THEN val \o ReplaceAll(SubSeq(s, Len(pat) + 1, Len(s)), pat, val)
    ELSE SubSeq(s, 1, 1) \o ReplaceAll(SubSeq(s, 2, Len(s)), pat, val)

\* s.split(" "): the pieces between single spaces, empty pieces included
RECURSIVE Split(_)
Split(s) ==
  IF s = "" THEN <<"">>
  ELSE LET rest == Split(SubSeq(s, 2, Len(s))) IN
       IF SubSeq(s, 1, 1) = " " THEN <<"">> \o rest
       ELSE <<SubSeq(s, 1, 1) \o Head(rest)>> \o Tail(rest)

\* parts.join(" ") of a non-empty array
RECURSIVE Join(_)
Join(parts) ==
  IF Len(parts) = 1 THEN parts[1] ELSE parts[1] \o " " \o Join(Tail(parts))

\* ------------------------------------------------- CommandResult (shared.ts)
Result(ok, code, out, err) ==
  [success |-> ok, code |-> code, stdout |-> out, stderr |-> err]

Ok == Result(TRUE, 0, <<>>, <<>>)
Failed == Result(FALSE, 1, <<>>, <<"E: command failed">>)

\* what a child process may answer to a command that is only run for effect
CommandResults == {Ok, Failed}

NothingMatches == <<"Nothing matches">>
FlatpakNoMatch ==
  Result(FALSE, 1, <<>>, <<"error: ">> \o NothingMatches \o <<" in remote flathub">>)
FlatpakOtherError == Result(FALSE, 1, <<>>, <<"error: network unreachable">>)
FlatpakInstallResults == {Ok, FlatpakNoMatch, FlatpakOtherError}

NativeFailed == Result(FALSE, 100, <<>>, <<"E: Unable to locate package">>)
InstallResults == {Ok, NativeFailed}

\* a listing command: lists the token asked for, lists something else, or fails
ListingResults(tok) ==
  { Result(TRUE, 0, <<"header ", tok>>, <<>>),
    Result(TRUE, 0, <<"header ">>, <<>>),
    Failed }

\* ----------------------------------------------------------- descriptors
Hosts == {<<"linux", "aarch64">>, <<"windows", "x86_64">>, <<"darwin", "aarch64">>,
          <<"freebsd", "x86_64">>}
Managers == {"zypper", "dnf", "apt", "winget", "homebrew"}
LinuxManagers == {"zypper", "dnf", "apt"}

\* what `which` finds on the hosts of the installer runs: nothing, one manager,
\* or two managers of which the first in the probing order wins
Paths == {{}, {"zypper"}, {"dnf", "apt"}, {"apt"}}

\* the values of Deno.build.os, and the manager executables a host may carry
OsFamilies == {"linux", "windows", "darwin", "freebsd", "netbsd", "android", "aix",
               "solaris", "illumos"}
Executables == {"zypper", "dnf", "apt", "winget", "brew"}

\* an optional list field: missing from the JSON object, or an array
Missing == [present |-> FALSE, items |-> <<>>]
Array(l) == [present |-> TRUE, items |-> l]

ArchLists == {Missing, Array(<<>>), Array(<<"x86_64">>)}
HookCommands == <<"ls", "id", "df">>
\* hook commands that name the variables once, twice, as the prefix of a
\* longer name, or not at all
EnvCommands ==
  { "mkdir -p $HOME/.config/$USER", "chown $USER:$USER $HOME", "echo $USERNAME ${HOME}",
    "ls -l" }
HookLists == {Missing, Array(SubSeq(HookCommands, 1, MaxHooks))}
PackageLists == {Missing, Array(<<>>), Array(<<"pkg">>)}
FlatpakIds == {Absent, "org.tool.App"}
RepoUrls == {Absent, "https://repo.example/x"}
GpgKeys == {Absent, "https://repo.example/key.asc"}

\* interface App (install-apps.ts 3-19); `packages` holds the five per-manager
\* lists zypper/dnf/apt/winget/homebrew, `name` is the position in the catalog
NoPackages == [m \in Managers |-> Missing]
EmptyPackages == [m \in Managers |-> Array(<<>>)]
AllPackages == [m \in Managers |-> Array(<<"pkg">>)]
SomePackages ==
  [m \in Managers |-> IF m \in {"dnf", "winget"} THEN Missing ELSE Array(<<"pkg">>)]
PackageChoices == {NoPackages, EmptyPackages, AllPackages, SomePackages}

Descriptors ==
  { d \in [ architectures : ArchLists,
            preInstallCommands : HookLists,
            postInstallCommands : HookLists,
            repoUrl : RepoUrls,
            repoGpgKey : GpgKeys,
            packages : PackageChoices,
            flatpak : FlatpakIds,
            requiresReboot : BOOLEAN ] :
      d.repoUrl = Absent => d.repoGpgKey = Absent }

\* the descriptors of the multi-entry catalogs: every architecture list and
\* reboot flag, over a bare entry, a native-only entry with hooks and a signed
\* repository, a native entry with fallback, and a flatpak-only entry
Shapes ==
  { [ preInstallCommands |-> Missing, postInstallCommands |-> Missing,
      repoUrl |-> Absent, repoGpgKey |-> Absent,
      packages |-> NoPackages, flatpak |-> Absent ],
    [ preInstallCommands |-> Array(SubSeq(HookCommands, 1, 1)),
      postInstallCommands |-> Array(SubSeq(HookCommands, 1, 1)),
      repoUrl |-> "https://repo.example/x", repoGpgKey |-> "https://repo.example/key.asc",
      packages |-> AllPackages, flatpak |-> Absent ],
    [ preInstallCommands |-> Missing,
      postInstallCommands |-> Array(SubSeq(HookCommands, 1, 1)),
      repoUrl |-> "https://repo.example/x", repoGpgKey |-> Absent,
      packages |-> AllPackages, flatpak |-> "org.tool.App" ],
    [ preInstallCommands |-> Missing, postInstallCommands |-> Missing,
      repoUrl |-> Absent, repoGpgKey |-> Absent,
      packages |-> EmptyPackages, flatpak |-> "org.tool.App" ] }

CatalogDescriptors ==
  { sh @@ [architectures |-> a, requiresReboot |-> r] :
      sh \in Shapes, a \in ArchLists, r \in BOOLEAN }

\* an environment variable: unset, or set to a text (which may be empty)
Unset == [set |-> FALSE, value |-> ""]
Set(v) == [set |-> TRUE, value |-> v]
UsualEnv == [USER |-> Set("a"), HOME |-> Set("/home/a")]
Envs ==
  { [USER |-> u, HOME |-> h] :
      u \in {Unset, Set(""), Set("a")}, h \in {Unset, Set("/home/a")} }

\* install-shell has not been started
NoShell == [packageManager |-> "<undetected>", step |-> 0, successCount |-> 0,
            skippedCount |-> 0, present |-> {}, zshrc |-> {}]

\* the host of a run that does not set up hibernation
NoHib == [subvolume |-> "absent", cow |-> FALSE, swapFile |-> FALSE, fstab |-> 0,
          dracut |-> "absent", polkit |-> "absent", active |-> FALSE,
          selinux |-> FALSE, zram |-> FALSE, unfit |-> "none", last |-> "none",
          root |-> FALSE, answer |-> "n", ram |-> 0, total |-> 0, available |-> 0,
          swapSizeGB |-> 0]

\* no call of runCommand is followed
NoChild == [spawned |-> FALSE, thrown |-> [isError |-> TRUE, message |-> ""],
            success |-> FALSE, code |-> 0, stdout |-> <<>>, stderr |-> <<>>]

\* ------------------------------------------------------------------ state
VARIABLES
  os, arch,               \* Deno.build.os, Deno.build.arch
  path,                   \* the executables `which` finds on the search path
  nApps,                  \* apps.length
  env,                    \* the environment variables USER and HOME (Deno.env)
  child,                  \* what the child of the followed runCommand call does
  shell,                  \* the InstallShell object, its run() and the user's shell files
  hib,                    \* what the hibernation setup reads and writes on the host
  pkgManager,             \* const pkgManager (main, line 40)
  pc,                     \* position of main
  idx,                    \* number of catalog entries the loop has taken
  app,                    \* the loop variable `app`
  cmds,                   \* commands issued in the current iteration (or by the setup)
  hookQ,                  \* commands still to run in the current hook loop
  nativePackagesFailed, nativePackagesError,
  appFailed, errorMsg,
  successApps, failedApps, skippedApps,
  needsReboot,
  exitCode,
  ip,                     \* the activation of installPackages (shared.ts 215-336)
  run,                    \* which run of the installer on this host this is
  hostInstalled,          \* the packages installed on the host
  hostRepos               \* the repositories registered on the host, in order

host == <<os, arch, path, nApps, env, child, shell, hib>>
buckets == <<successApps, failedApps, skippedApps>>
native == <<nativePackagesFailed, nativePackagesError>>
caught == <<appFailed, errorMsg>>
\* what only the specifications of installPackages and of the repository step
\* follow; the runs of main draw every answer of the host freely
beside == <<ip, run, hostInstalled, hostRepos>>
vars == <<os, arch, path, nApps, env, child, shell, hib, pkgManager, pc, idx, app, cmds, hookQ,
          nativePackagesFailed, nativePackagesError, appFailed, errorMsg,
          successApps, failedApps, skippedApps, needsReboot, exitCode,
          ip, run, hostInstalled, hostRepos>>

\* -------------------------------------------------------------- shared.ts
\* faulty variant: the candidates are probed in the opposite order
detectPackageManagerAptFirst(o, found) ==
  IF o = "linux"
    THEN IF "apt" \in found THEN "apt"
         ELSE IF "dnf" \in found THEN "dnf"
         ELSE IF "zypper" \in found THEN "zypper"
         ELSE NoManager
  ELSE IF o = "windows" THEN "winget"
  ELSE IF o = "darwin" THEN "homebrew"
  ELSE NoManager

\* detectPackageManager: `found` is the set of executables `which` finds
detectPackageManager(o, found) ==
  IF o = "linux"
    THEN IF "zypper" \in found THEN "zypper"
         ELSE IF "dnf" \in found THEN "dnf"
         ELSE IF "apt" \in found THEN "apt"
         ELSE NoManager
  ELSE IF o = "windows" THEN "winget"
  ELSE IF o = "darwin" THEN "homebrew"
  ELSE NoManager

\* ------------------------------------------------------- install-apps.ts
\* runAppCommand: the message of the Error thrown for a failed command
CommandError(command, result) ==
  <<"Error running command: ", command, "\nExit Code: ", ToString(result.code),
    "\nStderr: ">> \o result.stderr \o <<"\nStdout: ">> \o result.stdout

\* a log entry: the command, the application it was issued for (0: none) and
\* the step of main that issued it
EntryWith(name, step, command, args, result) ==
  [app |-> name, step |-> step, cmd |-> command, args |-> args, res |-> result]

Entry(name, step, command, result) == EntryWith(name, step, command, <<>>, result)

Issue(step, command, result) ==
  cmds' = Append(cmds, Entry(app.name, step, command, result))

IssueArgs(step, command, args, result) ==
  cmds' = Append(cmds, EntryWith(app.name, step, command, args, result))

\* faulty variant: the Error escapes the loop instead of being caught
ThrowEndsLoop(msg) == pc' = "summary" /\ appFailed' = TRUE /\ errorMsg' = msg

\* an Error reaching the catch of line 307
Throw(msg) == pc' = "record" /\ appFailed' = TRUE /\ errorMsg' = msg

Goto(p) == pc' = p /\ UNCHANGED caught

\* faulty variant: the negation of line 103 is lost
ArchExcludedInverted(a, hostArch) ==
  /\ a.architectures.present
  /\ Len(a.architectures.items) > 0
  /\ \E k \in 1..Len(a.architectures.items) : a.architectures.items[k] = hostArch

\* faulty variant: one-element lists are treated like empty ones
ArchExcludedOffByOne(a, hostArch) ==
  /\ a.architectures.present
  /\ Len(a.architectures.items) > 1
  /\ ~ \E k \in 1..Len(a.architectures.items) : a.architectures.items[k] = hostArch

\* lines 96-103: the entry is skipped
ArchExcluded(a, hostArch) ==
  /\ a.architectures.present
  /\ Len(a.architectures.items) > 0
  /\ ~ \E k \in 1..Len(a.architectures.items) : a.architectures.items[k] = hostArch

\* lines 192-197
SelectPkgs(a, mgr) == a.packages[mgr]

\* faulty variant: an empty list is handed to the installer too
HasPkgsWhenPresent(a, mgr) == SelectPkgs(a, mgr).present

\* line 199
HasPkgs(a, mgr) == SelectPkgs(a, mgr).present /\ Len(SelectPkgs(a, mgr).items) > 0

\* faulty variant: a native failure is always thrown at once
NeverFallback(a, o) == FALSE

\* lines 209, 229: a flatpak fallback is available
HasFallback(a, o) == a.flatpak # Absent /\ o = "linux"

\* faulty variant: flatpak is installed whatever the native installation did
FlatpakAlways(a, o, mgr, nativeFailed) == a.flatpak # Absent /\ o = "linux"

\* lines 238-241
FlatpakWanted(a, o, mgr, nativeFailed) ==
  /\ a.flatpak # Absent
  /\ o = "linux"
  /\ (nativeFailed \/ ~HasPkgs(a, mgr))

\* faulty variant: the installer's stderr is dropped from the message
NativeErrorWithoutStderr(result) == <<"Package installation failed: ">>

\* line 205
NativeError(result) == <<"Package installation failed: ">> \o result.stderr

\* faulty variant: any failed first attempt is retried
ResyncOnAnyFailure(result) == ~result.success

\* line 257
NeedsResync(result) == ~result.success /\ Includes(result.stderr, NothingMatches)

\* faulty variant: the native failure is forgotten
FlatpakErrorAlone(nativeFailed, nativeError, result) ==
  <<"Flatpak installation failed: ">> \o result.stderr

\* faulty variant: the combined message is used for every flatpak failure
FlatpakErrorCombined(nativeFailed, nativeError, result) ==
  <<"Both native package and Flatpak installation failed. Native: ">>
    \o nativeError \o <<". Flatpak: ">> \o result.stderr

\* lines 264-275
FlatpakError(nativeFailed, nativeError, result) ==
  IF nativeFailed
    THEN <<"Both native package and Flatpak installation failed. Native: ">>
           \o nativeError \o <<". Flatpak: ">> \o result.stderr
    ELSE <<"Flatpak installation failed: ">> \o result.stderr

\* ------------------------------------------------------------------- Init
\* installPackages is not active
NoCall ==
  [packages |-> <<>>, before |-> {}, i |-> 0, result |-> Ok,
   alreadyInstalled |-> <<>>, newlyInstalled |-> <<>>, returned |-> FALSE]

\* the host's package and repository databases are not followed
Untracked == hostInstalled = {} /\ hostRepos = <<>>

\* the environment of the runs that do not vary it; no child is followed
Aside == shell = NoShell /\ hib = NoHib
Usual == env = UsualEnv /\ child = NoChild /\ Aside

\* nothing has been processed
Idle ==
  /\ cmds = <<>>
  /\ hookQ = <<>>
  /\ nativePackagesFailed = FALSE
  /\ nativePackagesError = <<>>
  /\ appFailed = FALSE
  /\ errorMsg = <<>>
  /\ successApps = <<>>
  /\ failedApps = <<>>
  /\ skippedApps = <<>>
  /\ needsReboot = FALSE
  /\ exitCode = -1

\* main has not run yet
Fresh ==
  /\ pkgManager = Undetected
  /\ pc = "read"
  /\ idx = 0
  /\ app = NoApp
  /\ Idle
  /\ ip = NoCall
  /\ run = 1

InitWith(limit) ==
  /\ \E h \in Hosts : os = h[1] /\ arch = h[2]
  /\ path \in (IF os = "linux" THEN Paths ELSE {{}})
  /\ nApps \in 0..limit
  /\ Usual
  /\ Untracked
  /\ Fresh

\* line 37: apps.json is read and parsed; a failure rejects main()
ReadCatalog ==
  /\ pc = "read"
  /\ \E parsed \in BOOLEAN :
       IF parsed THEN pc' = "detect" /\ UNCHANGED exitCode
                 ELSE pc' = "exit" /\ exitCode' = 1
  /\ UNCHANGED <<host, beside, pkgManager, idx, app, cmds, hookQ, native, caught, buckets,
                 needsReboot>>

\* faulty variant: the run goes on without a package manager
DetectWithoutExit ==
  /\ pc = "detect"
  /\ pkgManager' = detectPackageManager(os, path)
  /\ pc' = (IF os = "linux" THEN "setup" ELSE "loop")
  /\ UNCHANGED <<host, beside, idx, app, cmds, hookQ, native, caught, buckets, needsReboot,
                 exitCode>>

\* lines 40-48: detection, once, before anything else
Detect ==
  /\ pc = "detect"
  /\ pkgManager' = detectPackageManager(os, path)
  /\ IF pkgManager' = NoManager
       THEN pc' = "exit" /\ exitCode' = 1
       ELSE pc' = (IF os = "linux" THEN "setup" ELSE "loop") /\ UNCHANGED exitCode
  /\ UNCHANGED <<host, beside, idx, app, cmds, hookQ, native, caught, buckets, needsReboot>>

\* lines 50-85: the commands of the Flathub remote setup, given their answers
SetupCommands(check, add, sync, alt) ==
  <<Entry(0, "setup", "flatpak remotes", check)>> \o
  (IF check.success /\ ~Includes(check.stdout, <<"flathub">>)
     THEN <<Entry(0, "setup", "flatpak remote-add", add)>> \o
          (IF add.success
             THEN <<Entry(0, "setup", "flatpak update --appstream", sync)>> \o
                  (IF ~sync.success
                     THEN <<Entry(0, "setup", "flatpak remote-ls", alt)>>
                     ELSE <<>>)
             ELSE <<>>)
     ELSE <<>>)

\* the host keeps one entry per alias, file or line: zypper refuses an alias
\* it has, the dnf file is overwritten, apt keeps a line it has, and
\* `flatpak remote-add --if-not-exists` leaves a remote it has
Register(repos, entry) ==
  IF \E k \in DOMAIN repos : repos[k] = entry THEN repos ELSE Append(repos, entry)

\* line 62: the remote that `flatpak remote-add --user flathub <url>` registers
Flathub == [name |-> "flathub", url |-> "https://dl.flathub.org/repo/flathub.flatpakrepo"]

\* lines 50-85, the setup of the Flathub remote, run as one step; `answers`
\* are the possible listings of the user's remotes, `tracked`: the host's
\* remotes are followed
FlatpakSetupOn(answers, tracked) ==
  /\ pc = "setup"
  /\ \E check \in answers, add \in CommandResults,
        sync \in CommandResults, alt \in CommandResults :
       /\ cmds' = SetupCommands(check, add, sync, alt)
       /\ hostRepos' = IF /\ tracked
                            /\ check.success /\ ~Includes(check.stdout, <<"flathub">>)
                            /\ add.success
                         THEN Register(hostRepos, Flathub)
                         ELSE hostRepos
  /\ pc' = "loop"
  /\ UNCHANGED <<host, ip, run, hostInstalled, pkgManager, idx, app, hookQ, native, caught,
                 buckets, needsReboot, exitCode>>

\* what `flatpak remotes` may answer on a host that is not followed
FlathubListings == ListingResults("flathub")

FlatpakSetup == FlatpakSetupOn(FlathubListings, FALSE)

\* faulty variant: the catalog is walked from its last entry to its first
NextAppReversed(catalog) ==
  /\ pc = "loop"
  /\ idx < nApps
  /\ \E d \in catalog : app' = [name |-> nApps - idx] @@ d
  /\ idx' = idx + 1
  /\ cmds' = <<>>
  /\ pc' = "arch"
  /\ UNCHANGED <<host, beside, pkgManager, hookQ, native, caught, buckets, needsReboot, exitCode>>

\* line 91: the loop takes the next catalog entry
NextApp(catalog) ==
  /\ pc = "loop"
  /\ idx < nApps
  /\ \E d \in catalog : app' = [name |-> idx + 1] @@ d
  /\ idx' = idx + 1
  /\ cmds' = <<>>
  /\ pc' = "arch"
  /\ UNCHANGED <<host, beside, pkgManager, hookQ, native, caught, buckets, needsReboot, exitCode>>

\* lines 95-111
ArchCheck ==
  /\ pc = "arch"
  /\ IF ArchExcluded(app, arch)
       THEN /\ skippedApps' = Append(skippedApps, app.name)
            /\ pc' = "next"
            /\ UNCHANGED <<hookQ, successApps, failedApps>>
       ELSE /\ pc' = "pre"
            /\ hookQ' = app.preInstallCommands.items
            /\ UNCHANGED buckets
  /\ UNCHANGED <<native, caught>>
  /\ UNCHANGED <<host, beside, pkgManager, idx, app, cmds, needsReboot, exitCode>>

\* Deno.env.get(name) || ""
EnvOr(variable) == IF variable.set /\ variable.value # "" THEN variable.value ELSE ""

\* faulty variant: only the first occurrence of each variable is replaced
ReplaceFirst(s, pat, val) ==
  IF \E k \in 1..Len(s) : StartsWith(SubSeq(s, k, Len(s)), pat)
    THEN LET k == CHOOSE k \in 1..Len(s) :
                    /\ StartsWith(SubSeq(s, k, Len(s)), pat)
                    /\ \A j \in 1..(k - 1) : ~StartsWith(SubSeq(s, j, Len(s)), pat)
         IN SubSeq(s, 1, k - 1) \o val \o SubSeq(s, k + Len(pat), Len(s))
    ELSE s

expandedCommandFirstOnly(command, e) ==
  ReplaceFirst(ReplaceFirst(command, "$USER", EnvOr(e.USER)), "$HOME", EnvOr(e.HOME))

\* lines 121-123 and 296-298
expandedCommand(command, e) ==
  ReplaceAll(ReplaceAll(command, "$USER", EnvOr(e.USER)), "$HOME", EnvOr(e.HOME))

\* lines 121-126 and 296-301 for every hook command under every environment:
\* the parts handed to runAppCommand, and the command as runAppCommand names it
commandParts ==
  [e \in Envs |->
    [c \in { HookCommands[k] : k \in DOMAIN HookCommands } \cup EnvCommands |->
      LET parts == Split(expandedCommand(c, e))
      IN [parts |-> parts, joined |-> Join(parts)]]]

\* faulty variant: a failed hook command is logged and the loop goes on
RunHookContinues(step) ==
  /\ pc = step
  /\ hookQ # <<>>
  /\ LET call == commandParts[env][Head(hookQ)]
     IN \E result \in CommandResults : IssueArgs(step, call.joined, call.parts, result)
  /\ Goto(step)
  /\ hookQ' = Tail(hookQ)
  /\ UNCHANGED <<host, beside, pkgManager, idx, app, native, buckets, needsReboot, exitCode>>

\* lines 117-127 and 292-302: one command of a hook loop, expanded, split and
\* run by runAppCommand, which names it by its parts joined
RunHook(step) ==
  /\ pc = step
  /\ hookQ # <<>>
  /\ LET call == commandParts[env][Head(hookQ)]
     IN \E result \in CommandResults :
          /\ IssueArgs(step, call.joined, call.parts, result)
          /\ IF result.success
               THEN Goto(step) /\ hookQ' = Tail(hookQ)
               ELSE Throw(CommandError(call.joined, result)) /\ hookQ' = <<>>
  /\ UNCHANGED <<host, beside, pkgManager, idx, app, native, buckets, needsReboot, exitCode>>

PreInstall == RunHook("pre")

PreInstallDone ==
  /\ pc = "pre"
  /\ hookQ = <<>>
  /\ Goto("repo")
  /\ UNCHANGED <<host, beside, pkgManager, idx, app, cmds, hookQ, native, buckets,
                 needsReboot, exitCode>>

\* frame of a step inside the try block of one application
AppFrame == UNCHANGED <<host, beside, pkgManager, idx, app, buckets, needsReboot, exitCode>>

\* lines 130-131
RepoApplies(a, mgr) == a.repoUrl # Absent /\ mgr \in LinuxManagers

\* line 133 (names are catalog positions, already without case or whitespace)
RepoName(a) == ToString(a.name)

\* faulty variant: the signing key is never imported
RepoEnterWithoutKey ==
  /\ pc = "repo"
  /\ IF ~RepoApplies(app, pkgManager) THEN Goto("install")
     ELSE IF pkgManager = "zypper" THEN Goto("repo_check")
     ELSE IF pkgManager = "dnf" THEN Goto("repo_check")
     ELSE Goto("repo_add")
  /\ UNCHANGED <<cmds, hookQ, native>>
  /\ AppFrame

\* lines 129-135, 145-150, 172-185: which command the repository step starts with
RepoEnter ==
  /\ pc = "repo"
  /\ IF ~RepoApplies(app, pkgManager) THEN Goto("install")
     ELSE IF pkgManager = "zypper" THEN Goto("repo_check")
     ELSE IF app.repoGpgKey # Absent THEN Goto("repo_key")
     ELSE IF pkgManager = "dnf" THEN Goto("repo_check")
     ELSE Goto("repo_add")
  /\ UNCHANGED <<cmds, hookQ, native>>
  /\ AppFrame

\* faulty variant: with a usable flatpak identifier a failed key import is
\* remembered like a native failure and the flatpak path is tried
RepoKeyFallsBack ==
  /\ pc = "repo_key"
  /\ \E result \in CommandResults :
       LET command == IF pkgManager = "dnf" THEN "sudo rpm --import"
                      ELSE "wget -qO- | sudo apt-key add -" IN
       /\ IssueArgs("repo", command, <<app.repoGpgKey>>, result)
       /\ IF result.success
            THEN /\ Goto(IF pkgManager = "dnf" THEN "repo_check" ELSE "repo_add")
                 /\ UNCHANGED native
            ELSE IF HasFallback(app, os)
              THEN /\ Goto("flatpak")
                   /\ nativePackagesFailed' = TRUE
                   /\ nativePackagesError' = CommandError(command, result)
              ELSE Throw(CommandError(command, result)) /\ UNCHANGED native
  /\ UNCHANGED hookQ
  /\ AppFrame

\* lines 147-150 (rpm --import) and 173-185 (wget | apt-key add)
RepoKey ==
  /\ pc = "repo_key"
  /\ \E result \in CommandResults :
       LET command == IF pkgManager = "dnf" THEN "sudo rpm --import"
                      ELSE "wget -qO- | sudo apt-key add -" IN
       /\ IssueArgs("repo", command, <<app.repoGpgKey>>, result)
       /\ IF result.success
            THEN Goto(IF pkgManager = "dnf" THEN "repo_check" ELSE "repo_add")
            ELSE Throw(CommandError(command, result))
  /\ UNCHANGED <<hookQ, native>>
  /\ AppFrame

\* lines 137, 153: the token looked for in the listing of registered repositories
RepoMarker(a, mgr) == IF mgr = "zypper" THEN RepoName(a) ELSE "code"

\* faulty variant: the listing is never believed
RepoRegisteredNever(check, marker) == FALSE

\* lines 139, 155
RepoRegistered(check, marker) == check.success /\ Includes(check.stdout, <<marker>>)

\* faulty variant: a repository found registered ends the step at once
RepoCheckOnSkipsRefresh(answers) ==
  /\ pc = "repo_check"
  /\ \E check \in answers :
       /\ Issue("repo", IF pkgManager = "zypper" THEN "zypper lr --name"
                        ELSE "dnf repolist --enabled", check)
       /\ IF RepoRegistered(check, RepoMarker(app, pkgManager))
            THEN Goto("install")
            ELSE Goto("repo_add")
  /\ UNCHANGED <<hookQ, native>>
  /\ AppFrame

\* lines 136-141 (zypper lr --name) and 152-157 (dnf repolist --enabled), the
\* listing being one of `answers`
RepoCheckOn(answers) ==
  /\ pc = "repo_check"
  /\ \E check \in answers :
       /\ Issue("repo", IF pkgManager = "zypper" THEN "zypper lr --name"
                        ELSE "dnf repolist --enabled", check)
       /\ IF RepoRegistered(check, RepoMarker(app, pkgManager))
            THEN Goto(IF pkgManager = "zypper" THEN "repo_refresh" ELSE "install")
            ELSE Goto("repo_add")
  /\ UNCHANGED <<hookQ, native>>
  /\ AppFrame

RepoCheck == RepoCheckOn(ListingResults(RepoMarker(app, pkgManager)))

\* lines 158-164: the repository file written for dnf
VsCodeUrl == "https://packages.microsoft.com/yumrepos/vscode"

\* what a successful addition registers: name (alias, section or line) and location
AddedRepo(mgr, a) ==
  IF mgr = "zypper" THEN [name |-> RepoName(a), url |-> a.repoUrl]
  ELSE IF mgr = "dnf" THEN [name |-> "code", url |-> VsCodeUrl]
  ELSE [name |-> a.repoUrl, url |-> a.repoUrl]

AddAnswers(mgr, a, repos) ==
  IF mgr = "zypper" /\ \E k \in DOMAIN repos : repos[k].name = RepoName(a)
    THEN {Failed}
    ELSE CommandResults

\* lines 142 (zypper addrepo), 158-170 (tee vscode.repo), 186 (add-apt-repository);
\* `tracked`: the host's repositories are followed
RepoAddOn(tracked) ==
  /\ pc = "repo_add"
  /\ \E result \in (IF tracked THEN AddAnswers(pkgManager, app, hostRepos)
                              ELSE CommandResults) :
       LET command == IF pkgManager = "zypper" THEN "sudo zypper addrepo --refresh"
                      ELSE IF pkgManager = "dnf" THEN "bash -c tee /etc/yum.repos.d/vscode.repo"
                      ELSE "sudo add-apt-repository"
           added == AddedRepo(pkgManager, app) IN
       /\ IssueArgs("repo", command, <<added.url>>, result)
       /\ IF result.success
            THEN Goto(IF pkgManager = "dnf" THEN "install" ELSE "repo_refresh")
            ELSE Throw(CommandError(command, result))
       /\ hostRepos' = IF tracked /\ result.success THEN Register(hostRepos, added)
                       ELSE hostRepos
  /\ UNCHANGED <<hookQ, native>>
  /\ UNCHANGED <<host, ip, run, hostInstalled, pkgManager, idx, app, buckets,
                 needsReboot, exitCode>>

RepoAdd == RepoAddOn(FALSE)

\* faulty variant: a failed refresh is logged and the installation goes on
RepoRefreshTolerated ==
  /\ pc = "repo_refresh"
  /\ \E result \in CommandResults :
       Issue("repo", IF pkgManager = "zypper" THEN "sudo zypper refresh"
                     ELSE "sudo apt update", result)
  /\ Goto("install")
  /\ UNCHANGED <<hookQ, native>>
  /\ AppFrame

\* lines 144 (zypper refresh) and 187 (apt update)
RepoRefresh ==
  /\ pc = "repo_refresh"
  /\ \E result \in CommandResults :
       LET command == IF pkgManager = "zypper" THEN "sudo zypper refresh"
                      ELSE "sudo apt update" IN
       /\ Issue("repo", command, result)
       /\ IF result.success
            THEN Goto("install")
            ELSE Throw(CommandError(command, result))
  /\ UNCHANGED <<hookQ, native>>
  /\ AppFrame

\* shared.ts 232-266: the install command of a manager (winget: per package)
InstallCommand(mgr) ==
  IF mgr = "zypper" THEN "sudo zypper install -y"
  ELSE IF mgr = "dnf" THEN "sudo dnf install -y"
  ELSE IF mgr = "apt" THEN "sudo apt install -y"
  ELSE IF mgr = "winget" THEN "winget install --silent"
  ELSE "brew install"

\* lines 191-235: native installation through installPackages
NativeInstall ==
  /\ pc = "install"
  /\ IF HasPkgs(app, pkgManager)
       THEN \E result \in InstallResults :
              /\ IssueArgs("install", InstallCommand(pkgManager),
                           SelectPkgs(app, pkgManager).items, result)
              /\ IF ~result.success
                   THEN /\ nativePackagesFailed' = TRUE
                        /\ nativePackagesError' = NativeError(result)
                        /\ IF ~HasFallback(app, os)
                             THEN Throw(NativeError(result))
                             ELSE Goto("flatpak")
                   ELSE Goto("flatpak") /\ UNCHANGED native
       ELSE Goto("flatpak") /\ UNCHANGED <<cmds, native>>
  /\ UNCHANGED hookQ
  /\ AppFrame

\* lines 237-241, 281-290: is the flatpak path taken
FlatpakGate ==
  /\ pc = "flatpak"
  /\ IF FlatpakWanted(app, os, pkgManager, nativePackagesFailed)
       THEN Goto("flatpak_list") /\ UNCHANGED hookQ
       ELSE IF HasFallback(app, os) /\ ~nativePackagesFailed /\ HasPkgs(app, pkgManager)
         THEN Goto("post") /\ hookQ' = app.postInstallCommands.items
       ELSE IF nativePackagesFailed
         THEN Throw(nativePackagesError) /\ UNCHANGED hookQ
       ELSE Goto("post") /\ hookQ' = app.postInstallCommands.items
  /\ UNCHANGED <<cmds, native>>
  /\ AppFrame

\* faulty variant: the installed list is not consulted
AlreadyInstalledIgnored(check, id) == FALSE

\* line 252
AlreadyInstalled(check, id) == check.success /\ Includes(check.stdout, <<id>>)

\* lines 245-254: flatpak list --user --app=<id>
FlatpakList ==
  /\ pc = "flatpak_list"
  /\ \E check \in ListingResults(app.flatpak) :
       /\ IssueArgs("flatpak", "flatpak list", <<app.flatpak>>, check)
       /\ IF AlreadyInstalled(check, app.flatpak)
            THEN Goto("post") /\ hookQ' = app.postInstallCommands.items
            ELSE Goto("flatpak_install") /\ UNCHANGED hookQ
  /\ UNCHANGED native
  /\ AppFrame

\* lines 264-280: what follows the last flatpak install attempt
FlatpakOutcome(result) ==
  IF ~result.success
    THEN Throw(FlatpakError(nativePackagesFailed, nativePackagesError, result))
         /\ UNCHANGED hookQ
    ELSE Goto("post") /\ hookQ' = app.postInstallCommands.items

\* lines 255-258: first attempt
FlatpakInstall ==
  /\ pc = "flatpak_install"
  /\ \E result \in FlatpakInstallResults :
       /\ IssueArgs("flatpak", "flatpak install", <<app.flatpak>>, result)
       /\ IF NeedsResync(result)
            THEN Goto("flatpak_sync") /\ UNCHANGED hookQ
            ELSE FlatpakOutcome(result)
  /\ UNCHANGED native
  /\ AppFrame

\* faulty variant: the retry is made without the metadata resync
FlatpakSyncSkipped ==
  /\ pc = "flatpak_sync"
  /\ Goto("flatpak_retry")
  /\ UNCHANGED <<cmds, hookQ, native>>
  /\ AppFrame

\* line 260: flatpak update --user --appstream, its answer is ignored
FlatpakSync ==
  /\ pc = "flatpak_sync"
  /\ \E result \in CommandResults :
       Issue("flatpak", "flatpak update --appstream", result)
  /\ Goto("flatpak_retry")
  /\ UNCHANGED <<hookQ, native>>
  /\ AppFrame

\* line 261: second attempt
FlatpakRetry ==
  /\ pc = "flatpak_retry"
  /\ \E result \in FlatpakInstallResults :
       /\ IssueArgs("flatpak", "flatpak install", <<app.flatpak>>, result)
       /\ FlatpakOutcome(result)
  /\ UNCHANGED native
  /\ AppFrame

PostInstall == RunHook("post")

\* faulty variant: the flag is assigned from the application instead of raised
PostInstallDoneAssigns ==
  /\ pc = "post"
  /\ hookQ = <<>>
  /\ needsReboot' = app.requiresReboot
  /\ Goto("record")
  /\ UNCHANGED <<host, beside, pkgManager, idx, app, cmds, hookQ, native, buckets, exitCode>>

\* lines 304-306: the end of the try block
PostInstallDone ==
  /\ pc = "post"
  /\ hookQ = <<>>
  /\ needsReboot' = (needsReboot \/ app.requiresReboot)
  /\ Goto("record")
  /\ UNCHANGED <<host, beside, pkgManager, idx, app, cmds, hookQ, native, buckets, exitCode>>

\* faulty variant: a failed application is listed as skipped
RecordFailureAsSkipped ==
  /\ pc = "record"
  /\ IF appFailed
       THEN /\ skippedApps' = Append(skippedApps, app.name)
            /\ UNCHANGED <<successApps, failedApps>>
       ELSE /\ successApps' = Append(successApps, app.name)
            /\ UNCHANGED <<failedApps, skippedApps>>
  /\ pc' = "next"
  /\ UNCHANGED <<host, beside, pkgManager, idx, app, cmds, hookQ, native, caught, needsReboot,
                 exitCode>>

\* faulty variant: the else of line 315 is lost
RecordWithoutElse ==
  /\ pc = "record"
  /\ IF appFailed
       THEN failedApps' = Append(failedApps, [name |-> app.name, error |-> errorMsg])
       ELSE UNCHANGED failedApps
  /\ successApps' = Append(successApps, app.name)
  /\ pc' = "next"
  /\ UNCHANGED <<host, beside, pkgManager, idx, app, cmds, hookQ, native, caught, needsReboot,
                 exitCode, skippedApps>>

\* lines 313-317
Record ==
  /\ pc = "record"
  /\ IF appFailed
       THEN /\ failedApps' = Append(failedApps, [name |-> app.name, error |-> errorMsg])
            /\ UNCHANGED <<successApps, skippedApps>>
       ELSE /\ successApps' = Append(successApps, app.name)
            /\ UNCHANGED <<failedApps, skippedApps>>
  /\ pc' = "next"
  /\ UNCHANGED <<host, beside, pkgManager, idx, app, cmds, hookQ, native, caught, needsReboot,
                 exitCode>>

\* lines 106 (continue) and 318: the iteration ends, its locals go out of scope
EndIteration ==
  /\ pc = "next"
  /\ pc' = "loop"
  /\ app' = NoApp
  /\ cmds' = <<>>
  /\ appFailed' = FALSE
  /\ errorMsg' = <<>>
  /\ nativePackagesFailed' = FALSE
  /\ nativePackagesError' = <<>>
  /\ UNCHANGED <<host, beside, pkgManager, idx, hookQ, buckets, needsReboot, exitCode>>

\* lines 320-336: the loop is over, the summary is printed
Summary ==
  /\ pc = "loop"
  /\ idx = nApps
  /\ pc' = "summary"
  /\ UNCHANGED <<host, beside, pkgManager, idx, app, cmds, hookQ, native, caught, buckets,
                 needsReboot, exitCode>>

\* line 339: confirm() and its answer, logged like a command: success is "yes"
Prompt(answer) == Entry(0, "reboot", "confirm", Result(answer, 0, <<>>, <<>>))

\* faulty variant: the reboot command is issued whatever the answer
FinishRebootsUnasked ==
  /\ pc = "summary"
  /\ IF needsReboot
       THEN \E answer \in BOOLEAN, result \in CommandResults :
              /\ cmds' = cmds \o <<Prompt(answer), Entry(0, "reboot", "sudo reboot", result)>>
              /\ exitCode' = IF result.success THEN 0 ELSE 1
       ELSE UNCHANGED cmds /\ exitCode' = 0
  /\ pc' = "exit"
  /\ UNCHANGED <<host, beside, pkgManager, idx, app, hookQ, native, caught, buckets, needsReboot>>

\* lines 338-349: reboot prompt; a failing `sudo reboot` rejects main()
Finish ==
  /\ pc = "summary"
  /\ IF needsReboot
       THEN \E answer \in BOOLEAN, result \in CommandResults :
              IF answer
                THEN /\ cmds' = cmds \o <<Prompt(TRUE),
                                           Entry(0, "reboot", "sudo reboot", result)>>
                     /\ exitCode' = IF result.success THEN 0 ELSE 1
                ELSE cmds' = Append(cmds, Prompt(FALSE)) /\ exitCode' = 0
       ELSE UNCHANGED cmds /\ exitCode' = 0
  /\ pc' = "exit"
  /\ UNCHANGED <<host, beside, pkgManager, idx, app, hookQ, native, caught, buckets, needsReboot>>

Steps ==
  \/ ReadCatalog
  \/ Detect
  \/ FlatpakSetup
  \/ ArchCheck
  \/ PreInstall
  \/ PreInstallDone
  \/ RepoEnter
  \/ RepoKey
  \/ RepoCheck
  \/ RepoAdd
  \/ RepoRefresh
  \/ NativeInstall
  \/ FlatpakGate
  \/ FlatpakList
  \/ FlatpakInstall
  \/ FlatpakSync
  \/ FlatpakRetry
  \/ PostInstall
  \/ PostInstallDone
  \/ Record
  \/ EndIteration
  \/ Summary
  \/ Finish

\* runs over catalogs of up to MaxApps representative entries
Init == InitWith(MaxApps)

Next == NextApp(CatalogDescriptors) \/ Steps

Spec == Init /\ [][Next]_vars

\* main runs to its end: no step waits for anything but the child it started
FairSpec == Spec /\ WF_vars(Next)

\* runs over catalogs of up to MaxDetailedApps entries of any shape
InitDetailed == InitWith(MaxDetailedApps)

NextDetailed == NextApp(Descriptors) \/ Steps

SpecApp == InitDetailed /\ [][NextDetailed]_vars

\* runs over catalogs of up to MaxDetailedApps entries of any shape that have
\* a repository location
RepoDescriptors == { d \in Descriptors : d.repoUrl # Absent }

NextRepoApps == NextApp(RepoDescriptors) \/ Steps

SpecRepoApps == InitDetailed /\ [][NextRepoApps]_vars

\* runs over catalogs of up to MaxDetailedApps entries of any shape that have
\* no flatpak identifier: no flatpak command is ever issued
NativeDescriptors == { d \in Descriptors : d.flatpak = Absent }

NextNative ==
  \/ NextApp(NativeDescriptors)
  \/ ReadCatalog
  \/ Detect
  \/ FlatpakSetup
  \/ ArchCheck
  \/ PreInstall
  \/ PreInstallDone
  \/ RepoEnter
  \/ RepoKey
  \/ RepoCheck
  \/ RepoAdd
  \/ RepoRefresh
  \/ NativeInstall
  \/ FlatpakGate
  \/ PostInstall
  \/ PostInstallDone
  \/ Record
  \/ EndIteration
  \/ Summary
  \/ Finish

SpecNative == InitDetailed /\ [][NextNative]_vars

\* runs over catalogs of up to MaxDetailedApps entries of any shape that have
\* a flatpak identifier and no repository: no repository command is issued
FlatpakDescriptors == { d \in Descriptors : d.flatpak # Absent /\ d.repoUrl = Absent }

NextFlatpak ==
  \/ NextApp(FlatpakDescriptors)
  \/ ReadCatalog
  \/ Detect
  \/ FlatpakSetup
  \/ ArchCheck
  \/ PreInstall
  \/ PreInstallDone
  \/ RepoEnter
  \/ NativeInstall
  \/ FlatpakGate
  \/ FlatpakList
  \/ FlatpakInstall
  \/ FlatpakSync
  \/ FlatpakRetry
  \/ PostInstall
  \/ PostInstallDone
  \/ Record
  \/ EndIteration
  \/ Summary
  \/ Finish

SpecFlatpak == InitDetailed /\ [][NextFlatpak]_vars


\* ------------------------------------------- installPackages (shared.ts)
Packages == {"pkg", "lib"}
PackageSeqs == UNION { [1..n -> Packages] : n \in 0..MaxPkgs }
Elements(list) == { list[k] : k \in DOMAIN list }

\* what a manager prints for one identifier, in the wording installPackages
\* looks for (lines 251-252, 287-295, 312-313, 323); zypper's wording is read
\* by nobody
Phrase(mgr, pkg, present) ==
  CASE mgr = "dnf" ->
         IF present THEN <<"Package ", pkg, " is ", "already installed">>
                    ELSE <<"Installing : ", pkg>>
    [] mgr = "apt" ->
         IF present THEN <<pkg, " is already the newest version">>
                    ELSE <<"Setting up ", pkg>>
    [] mgr = "homebrew" ->
         IF present THEN <<pkg, ": already installed">> ELSE <<"Pouring ", pkg>>
    [] mgr = "winget" ->
         IF present THEN <<"Found ", pkg, "already installed">>
                    ELSE <<"Successfully installed ", pkg>>
    [] OTHER ->
         IF present THEN <<"'", pkg, "' is already installed.">>
                    ELSE <<"Installing: ", pkg>>

RECURSIVE Transcript(_, _, _)
Transcript(mgr, list, installed) ==
  IF list = <<>> THEN <<>>
  ELSE Phrase(mgr, Head(list), Head(list) \in installed)
         \o Transcript(mgr, Tail(list), installed)

\* the answers of an install command for `list` on a host with `installed`:
\* it fails, or reports on every identifier; dnf may also stay silent
InstallAnswers(mgr, list, installed) ==
  { NativeFailed, Result(TRUE, 0, Transcript(mgr, list, installed), <<>>) }
    \cup (IF mgr = "dnf" THEN {Ok} ELSE {})

\* `dnf list installed <pkg>`
QueryAnswers(pkg, installed) == {Failed} \cup (IF pkg \in installed THEN {Ok} ELSE {})

\* lines 250-253
WingetAlready(result) ==
  \/ Includes(result.stdout, <<"already installed">>)
  \/ Includes(result.stdout, <<"No applicable update found">>)

\* lines 286-290
DnfNew(result, pkg) ==
  \/ Includes(result.stdout, <<"Installing : ", pkg>>)
  \/ Includes(result.stdout, <<"Upgrading : ", pkg>>)
  \/ Includes(result.stdout, <<"Installed:">>) /\ Includes(result.stdout, <<pkg>>)

\* lines 292-296
DnfAlready(result, pkg, n) ==
  \/ Includes(result.stdout, <<"Package ", pkg>>)
       /\ Includes(result.stdout, <<"already installed">>)
  \/ Includes(result.stderr, <<"Package ", pkg>>)
       /\ Includes(result.stderr, <<"already installed">>)
  \/ Includes(result.stdout, <<"Nothing to do">>) /\ n = 1

\* lines 311-314
AptAlready(result, pkg) ==
  \/ Includes(result.stdout, <<pkg, " is already the newest version">>)
  \/ Includes(result.stdout, <<pkg, " set to manually installed">>)

\* line 323
BrewAlready(result, pkg) == Includes(result.stdout, <<pkg, ": already installed">>)

\* lines 310-328: the identifiers of `list`, in order, that the output reports
\* as already installed (wanted) or does not (~wanted)
RECURSIVE Keep(_, _, _, _)
Keep(mgr, result, list, wanted) ==
  IF list = <<>> THEN <<>>
  ELSE LET pkg == Head(list)
           already == IF mgr = "apt" THEN AptAlready(result, pkg)
                      ELSE IF mgr = "homebrew" THEN BrewAlready(result, pkg)
                      ELSE FALSE
       IN (IF already = wanted THEN <<pkg>> ELSE <<>>)
            \o Keep(mgr, result, Tail(list), wanted)

\* lines 308-332: the classification of apt, homebrew and zypper, which asks nobody
ClassifiedAlready(mgr, result, list) == Keep(mgr, result, list, TRUE)
ClassifiedNewly(mgr, result, list) == Keep(mgr, result, list, FALSE)

IpFrame ==
  UNCHANGED <<host, pkgManager, idx, app, hookQ, native, caught, buckets, needsReboot,
              exitCode, run, hostRepos>>

\* lines 219-232, 242, 264: which way the call goes
IpEnter ==
  /\ pc = "ip_call"
  /\ ip' = [ip EXCEPT !.before = hostInstalled, !.i = 1,
                      !.returned = (ip.packages = <<>>)]
  /\ pc' = IF ip.packages = <<>> THEN "ip_ret"
           ELSE IF pkgManager = "winget" THEN "ip_winget"
           ELSE "ip_run"
  /\ UNCHANGED <<cmds, hostInstalled>>
  /\ IpFrame

\* faulty variant: a failed identifier is passed over
IpWingetContinues ==
  /\ pc = "ip_winget"
  /\ IF ip.i > Len(ip.packages)
       THEN /\ ip' = [ip EXCEPT !.result = Ok, !.returned = TRUE]
            /\ pc' = "ip_ret"
            /\ UNCHANGED <<cmds, hostInstalled>>
       ELSE LET pkg == ip.packages[ip.i] IN
            \E result \in InstallAnswers("winget", <<pkg>>, hostInstalled) :
              /\ IssueArgs("install", InstallCommand("winget"), <<pkg>>, result)
              /\ IF result.success
                   THEN /\ ip' = [ip EXCEPT
                                   !.i = @ + 1,
                                   !.alreadyInstalled =
                                      IF WingetAlready(result) THEN Append(@, pkg) ELSE @,
                                   !.newlyInstalled =
                                      IF WingetAlready(result) THEN @ ELSE Append(@, pkg)]
                        /\ hostInstalled' = hostInstalled \cup {pkg}
                        /\ pc' = "ip_winget"
                   ELSE /\ ip' = [ip EXCEPT !.i = @ + 1]
                        /\ pc' = "ip_winget"
                        /\ UNCHANGED hostInstalled
  /\ IpFrame

\* lines 247-262: one identifier of the winget loop
IpWinget ==
  /\ pc = "ip_winget"
  /\ IF ip.i > Len(ip.packages)
       THEN /\ ip' = [ip EXCEPT !.result = Ok, !.returned = TRUE]
            /\ pc' = "ip_ret"
            /\ UNCHANGED <<cmds, hostInstalled>>
       ELSE LET pkg == ip.packages[ip.i] IN
            \E result \in InstallAnswers("winget", <<pkg>>, hostInstalled) :
              /\ IssueArgs("install", InstallCommand("winget"), <<pkg>>, result)
              /\ IF result.success
                   THEN /\ ip' = [ip EXCEPT
                                   !.i = @ + 1,
                                   !.alreadyInstalled =
                                      IF WingetAlready(result) THEN Append(@, pkg) ELSE @,
                                   !.newlyInstalled =
                                      IF WingetAlready(result) THEN @ ELSE Append(@, pkg)]
                        /\ hostInstalled' = hostInstalled \cup {pkg}
                        /\ pc' = "ip_winget"
                   ELSE /\ ip' = [ip EXCEPT !.result = result, !.returned = TRUE]
                        /\ pc' = "ip_ret"
                        /\ UNCHANGED hostInstalled
  /\ IpFrame

\* faulty variant: the output of a failed call is classified too
IpRunClassifiesAlways ==
  /\ pc = "ip_run"
  /\ \E result \in InstallAnswers(pkgManager, ip.packages, hostInstalled) :
       /\ IssueArgs("install", InstallCommand(pkgManager), ip.packages, result)
       /\ IF result.success
            THEN /\ ip' = [ip EXCEPT !.result = result]
                 /\ hostInstalled' = hostInstalled \cup Elements(ip.packages)
                 /\ pc' = "ip_classify"
            ELSE /\ ip' = [ip EXCEPT !.result = result]
                 /\ UNCHANGED hostInstalled
                 /\ pc' = "ip_classify"
  /\ IpFrame

\* lines 233-241, 264-266, 276-282: the one install command of the other managers
IpRun ==
  /\ pc = "ip_run"
  /\ \E result \in InstallAnswers(pkgManager, ip.packages, hostInstalled) :
       /\ IssueArgs("install", InstallCommand(pkgManager), ip.packages, result)
       /\ IF result.success
            THEN /\ ip' = [ip EXCEPT !.result = result]
                 /\ hostInstalled' = hostInstalled \cup Elements(ip.packages)
                 /\ pc' = "ip_classify"
            ELSE /\ ip' = [ip EXCEPT !.result = result, !.returned = TRUE]
                 /\ UNCHANGED hostInstalled
                 /\ pc' = "ip_ret"
  /\ IpFrame

\* lines 283-307: one identifier of the dnf loop
IpClassifyDnf ==
  /\ pc = "ip_classify"
  /\ pkgManager = "dnf"
  /\ IF ip.i > Len(ip.packages)
       THEN ip' = [ip EXCEPT !.returned = TRUE] /\ pc' = "ip_ret" /\ UNCHANGED cmds
       ELSE LET pkg == ip.packages[ip.i] IN
            /\ pc' = "ip_classify"
            /\ IF DnfNew(ip.result, pkg)
                 THEN /\ ip' = [ip EXCEPT !.i = @ + 1, !.newlyInstalled = Append(@, pkg)]
                      /\ UNCHANGED cmds
                 ELSE IF DnfAlready(ip.result, pkg, Len(ip.packages))
                   THEN /\ ip' = [ip EXCEPT !.i = @ + 1,
                                            !.alreadyInstalled = Append(@, pkg)]
                        /\ UNCHANGED cmds
                 ELSE \E checkResult \in QueryAnswers(pkg, hostInstalled) :
                        /\ IssueArgs("install", "dnf list installed", <<pkg>>, checkResult)
                        /\ ip' = [ip EXCEPT
                                    !.i = @ + 1,
                                    !.alreadyInstalled =
                                       IF checkResult.success THEN Append(@, pkg) ELSE @,
                                    !.newlyInstalled =
                                       IF checkResult.success THEN @ ELSE Append(@, pkg)]
  /\ UNCHANGED hostInstalled
  /\ IpFrame

\* lines 308-335: the classification of the other managers, and the return
IpClassify ==
  /\ pc = "ip_classify"
  /\ pkgManager # "dnf"
  /\ ip' = [ip EXCEPT
              !.alreadyInstalled = ClassifiedAlready(pkgManager, ip.result, ip.packages),
              !.newlyInstalled = ClassifiedNewly(pkgManager, ip.result, ip.packages),
              !.returned = TRUE]
  /\ pc' = "ip_ret"
  /\ UNCHANGED <<cmds, hostInstalled>>
  /\ IpFrame

\* the installer is run again on the same host, for the same list
IpAgain ==
  /\ pc = "ip_ret"
  /\ run < MaxRuns
  /\ run' = run + 1
  /\ ip' = [NoCall EXCEPT !.packages = ip.packages]
  /\ cmds' = <<>>
  /\ pc' = "ip_call"
  /\ UNCHANGED <<host, pkgManager, idx, app, hookQ, native, caught, buckets, needsReboot,
                 exitCode, hostInstalled, hostRepos>>

\* installPackages alone: every manager, every list of up to MaxPkgs
\* identifiers, every set of packages already on the host
InitPkgs ==
  /\ os = "linux" /\ arch = "x86_64" /\ path = {} /\ nApps = 0
  /\ Usual
  /\ idx = 0
  /\ app = NoApp
  /\ Idle
  /\ pkgManager \in Managers
  /\ \E list \in PackageSeqs : ip = [NoCall EXCEPT !.packages = list]
  /\ pc = "ip_call"
  /\ run = 1
  /\ hostInstalled \in SUBSET Packages
  /\ hostRepos = <<>>

NextPkgs == IpEnter \/ IpWinget \/ IpRun \/ IpClassifyDnf \/ IpClassify \/ IpAgain

SpecPkgs == InitPkgs /\ [][NextPkgs]_vars

\* --------------------------------- the repository step on a followed host
RepoLocations == {"https://repo.example/x", VsCodeUrl}

\* descriptors with a repository and nothing else
RepoApps ==
  { [ name |-> 1, architectures |-> Missing,
      preInstallCommands |-> Missing, postInstallCommands |-> Missing,
      repoUrl |-> u, repoGpgKey |-> k,
      packages |-> NoPackages, flatpak |-> Absent, requiresReboot |-> FALSE ] :
      u \in RepoLocations, k \in GpgKeys }

\* the repositories of the host before the first run: none, an unrelated one,
\* one that carries the short-name of the application for another location,
\* one whose name only contains that short-name, and the one the dnf branch
\* writes
HostRepoStates ==
  { <<>>,
    <<[name |-> "other", url |-> "https://repo.example/other"]>>,
    <<[name |-> "1", url |-> "https://repo.example/other"]>>,
    <<[name |-> "1-testing", url |-> "https://repo.example/other"]>>,
    <<[name |-> "code", url |-> VsCodeUrl]>> }

\* the names of the repositories or remotes as the tokens of the text that
\* prints them, one line each; a name that contains a shorter name which is
\* searched for is printed as that name and the rest
RECURSIVE NamesPrinted(_)
NamesPrinted(repos) ==
  IF repos = <<>> THEN <<>>
  ELSE (IF Head(repos).name = "flathub-beta" THEN <<"flathub", "-beta">>
        ELSE IF Head(repos).name = "1-testing" THEN <<"1", "-testing">>
        ELSE <<Head(repos).name>>)
       \o <<"\n">> \o NamesPrinted(Tail(repos))

\* `zypper lr --name` / `dnf repolist --enabled` on the host: the names of the
\* registered repositories, or a failure
HostListing(repos) ==
  { Result(TRUE, 0, <<"header ">> \o NamesPrinted(repos), <<>>), Failed }

HostRepoCheck == RepoCheckOn(HostListing(hostRepos))

HostRepoAdd == RepoAddOn(TRUE)

\* the installer is run again on the same host with the same catalog
RepoAgain ==
  /\ pc \in {"install", "record"}
  /\ run < MaxRuns
  /\ run' = run + 1
  /\ pc' = "repo"
  /\ cmds' = <<>>
  /\ appFailed' = FALSE
  /\ errorMsg' = <<>>
  /\ UNCHANGED <<host, pkgManager, idx, app, hookQ, native, buckets, needsReboot,
                 exitCode, ip, hostInstalled, hostRepos>>

InitRepo ==
  /\ os = "linux" /\ arch = "x86_64" /\ nApps = 1
  /\ Usual
  /\ pkgManager \in LinuxManagers
  /\ path = {pkgManager}
  /\ idx = 1
  /\ app \in RepoApps
  /\ pc = "repo"
  /\ Idle
  /\ ip = NoCall
  /\ run = 1
  /\ hostInstalled = {}
  /\ hostRepos \in HostRepoStates

NextRepo ==
  RepoEnter \/ RepoKey \/ HostRepoCheck \/ HostRepoAdd \/ RepoRefresh \/ RepoAgain

SpecRepo == InitRepo /\ [][NextRepo]_vars

\* ------------------------------ the Flathub setup on a followed Linux host
\* `flatpak remotes --user` lists the remotes of the host, or fails
HostFlatpakSetup ==
  FlatpakSetupOn({ Result(TRUE, 0, NamesPrinted(hostRepos), <<>>), Failed }, TRUE)

InitSetup ==
  /\ os = "linux"
  /\ arch \in {"x86_64", "aarch64"}
  /\ path \in Paths
  /\ nApps \in 0..MaxApps
  /\ Usual
  /\ hostInstalled = {}
  \* the user-level remotes before the run: none, flathub, or only flathub-beta
  /\ hostRepos \in
       { <<>>,
         <<Flathub>>,
         <<[name |-> "flathub-beta",
            url |-> "https://dl.flathub.org/beta-repo/flathub-beta.flatpakrepo"]>> }
  /\ Fresh

\* descriptors installed by flatpak alone
FlatpakOnlyDescriptors ==
  { [ architectures |-> Missing, preInstallCommands |-> Missing,
      postInstallCommands |-> Missing, repoUrl |-> Absent,
      repoGpgKey |-> Absent, packages |-> NoPackages,
      flatpak |-> "org.tool.App", requiresReboot |-> r ] : r \in BOOLEAN }

NextSetup ==
  \/ ReadCatalog
  \/ Detect
  \/ HostFlatpakSetup
  \/ NextApp(FlatpakOnlyDescriptors)
  \/ ArchCheck
  \/ PreInstallDone
  \/ RepoEnter
  \/ NativeInstall
  \/ FlatpakGate
  \/ FlatpakList
  \/ FlatpakInstall
  \/ FlatpakSync
  \/ FlatpakRetry
  \/ PostInstallDone
  \/ Record
  \/ EndIteration
  \/ Summary
  \/ Finish

SpecSetup == InitSetup /\ [][NextSetup]_vars

\* ------------------------------------ main under every environment
\* descriptors whose every text field names a variable
EnvApps ==
  { [ architectures |-> Missing,
      preInstallCommands |-> Array(<<c>>),
      postInstallCommands |-> post,
      repoUrl |-> "https://repo.example/$USER",
      repoGpgKey |-> "https://repo.example/$HOME.asc",
      packages |-> [m \in Managers |-> Array(<<"$USER-tools">>)],
      flatpak |-> "org.$HOME.App",
      requiresReboot |-> FALSE ] :
      c \in EnvCommands,
      post \in {Missing, Array(<<"chown $USER:$USER $HOME", "mkdir -p $HOME/.config/$USER">>)} }

InitEnv ==
  /\ \E h \in Hosts : os = h[1] /\ arch = h[2]
  /\ path \in (IF os = "linux" THEN Paths ELSE {{}})
  /\ nApps = 1
  /\ env \in Envs
  /\ child = NoChild
  /\ Aside
  /\ Untracked
  /\ Fresh

NextEnv == NextApp(EnvApps) \/ Steps

SpecEnv == InitEnv /\ [][NextEnv]_vars

\* ------------------------------------------------- runCommand (shared.ts)
\* what a stream of the child holds: the bytes of "h" and "i", and a byte
\* that is no UTF-8 text
Streams == UNION { [1..n -> {104, 105, 255}] : n \in 0..MaxBytes }

\* a child that ran: success is Deno's `code === 0`, a child ended by a signal
\* reports 128 + the signal; or what Deno.Command throws when the process
\* cannot be started
Children ==
  { [spawned |-> TRUE, thrown |-> NoChild.thrown, success |-> st[1], code |-> st[2],
     stdout |-> out, stderr |-> err] :
      st \in {<<TRUE, 0>>, <<FALSE, 1>>, <<FALSE, 127>>, <<FALSE, 143>>},
      out \in Streams, err \in Streams }
  \cup
  { [spawned |-> FALSE, thrown |-> [isError |-> TRUE, message |-> t], success |-> FALSE,
     code |-> 0, stdout |-> <<>>, stderr |-> <<>>] :
      t \in {"No such file or directory (os error 2)", "Permission denied (os error 13)"} }

\* new TextDecoder().decode(bytes): text for text, U+FFFD for the rest
Decode(bytes) ==
  [k \in DOMAIN bytes |->
     IF bytes[k] = 104 THEN "h" ELSE IF bytes[k] = 105 THEN "i" ELSE "<U+FFFD>"]

Returns(result) ==
  /\ cmds' = <<EntryWith(0, "run", "command", <<>>, result)>>
  /\ pc' = "rc_ret"

RcFrame ==
  UNCHANGED <<host, beside, pkgManager, idx, app, hookQ, native, caught, buckets,
              needsReboot, exitCode>>

\* faulty variant: the call is not wrapped in try/catch
RcSpawnUncaught ==
  /\ pc = "rc_call"
  /\ pc' = (IF child.spawned THEN "rc_wait" ELSE "rc_raised")
  /\ UNCHANGED cmds
  /\ RcFrame

\* lines 125-132, 140-147: the process is started, or the catch block returns
RcSpawn ==
  /\ pc = "rc_call"
  /\ IF child.spawned
       THEN pc' = "rc_wait" /\ UNCHANGED cmds
       \* line 145: error instanceof Error ? error.message : String(error)
       ELSE Returns(Result(FALSE, -1, <<>>,
              <<IF child.thrown.isError THEN child.thrown.message ELSE "[object Object]">>))
  /\ RcFrame

\* lines 132-139: the child has ended
RcOutput ==
  /\ pc = "rc_wait"
  /\ Returns(Result(child.success, child.code, Decode(child.stdout), Decode(child.stderr)))
  /\ RcFrame

\* runCommand alone, for every child
InitRun ==
  /\ os = "linux" /\ arch = "x86_64" /\ path = {} /\ nApps = 0
  /\ env = UsualEnv
  /\ child \in Children
  /\ Aside
  /\ pkgManager = Undetected
  /\ idx = 0
  /\ app = NoApp
  /\ Idle
  /\ ip = NoCall
  /\ run = 1
  /\ Untracked
  /\ pc = "rc_call"

NextRun == RcSpawn \/ RcOutput

SpecRun == InitRun /\ [][NextRun]_vars

\* ------------------------------------------------------ install-shell.ts
\* lines 32-58: the command runs under bash -c with inherited output; a
\* non-zero exit and a spawn that throws both make runCommand return false
ShellOutcomes ==
  {Result(TRUE, 0, <<>>, <<>>), Result(FALSE, 1, <<>>, <<>>), Result(FALSE, -1, <<>>, <<"spawn">>)}

\* lines 140-182: the list of steps; installs names what a successful step
\* leaves on the host, skipIfExists what its skip check looks for
setupSteps(packageManager) ==
  LET updateCmd ==
        IF packageManager = "apt" THEN "sudo apt update"
        ELSE IF packageManager = "dnf" THEN "sudo dnf check-update || true"
        ELSE "echo 'No update needed'"
      installCmd ==
        IF packageManager = "apt" THEN "sudo apt install zsh -y"
        ELSE IF packageManager = "dnf" THEN "sudo dnf install zsh -y"
        ELSE IF packageManager = "zypper" THEN "sudo zypper install -y zsh"
        ELSE "echo 'Unsupported package manager for zsh installation'"
  IN << [name |-> "update-packages", command |-> updateCmd,
         skipIfExists |-> {}, installs |-> {}],
        [name |-> "install-zsh", command |-> installCmd,
         skipIfExists |-> {"zsh"}, installs |-> {"zsh"}],
        [name |-> "install-oh-my-zsh", command |-> "sh -c $(curl install.sh) --unattended",
         skipIfExists |-> {".oh-my-zsh"}, installs |-> {".oh-my-zsh", ".zshrc"}],
        [name |-> "install-powerlevel10k", command |-> "git clone powerlevel10k",
         skipIfExists |-> {"powerlevel10k"}, installs |-> {"powerlevel10k"}] >>

\* the exits the shell gives a step's command; `... || true` hides the exit of
\* dnf check-update
OutcomesOf(command) ==
  IF command = "sudo dnf check-update || true"
    THEN { r \in ShellOutcomes : r.success \/ r.code = -1 }
    ELSE ShellOutcomes

ShellFrame ==
  UNCHANGED <<os, arch, path, nApps, env, child, hib, beside, pkgManager, idx, app, hookQ,
              native, caught, buckets, needsReboot>>

\* lines 233-241
ShellDetect ==
  /\ pc = "sh_detect"
  /\ shell' = [shell EXCEPT !.packageManager = detectPackageManager(os, path)]
  /\ IF shell'.packageManager = NoManager
       THEN pc' = "exit" /\ exitCode' = 1
       ELSE pc' = "sh_steps" /\ UNCHANGED exitCode
  /\ UNCHANGED cmds
  /\ ShellFrame

\* faulty variant: a failed step is counted and the next step runs
ShellStepContinues ==
  /\ pc = "sh_steps"
  /\ LET step == setupSteps(shell.packageManager)[shell.step + 1] IN
       IF step.skipIfExists # {} /\ step.skipIfExists \subseteq shell.present
         THEN /\ shell' = [shell EXCEPT !.skippedCount = @ + 1, !.step = @ + 1]
              /\ pc' = (IF shell.step + 1 = 4 THEN "sh_theme" ELSE "sh_steps")
              /\ UNCHANGED <<cmds, exitCode>>
         ELSE \E result \in OutcomesOf(step.command) :
                /\ cmds' = Append(cmds, Entry(step.name, "step", step.command, result))
                /\ shell' = [shell EXCEPT !.successCount = @ + 1, !.step = @ + 1,
                                          !.present = IF result.success
                                                        THEN @ \cup step.installs ELSE @]
                /\ pc' = (IF shell.step + 1 = 4 THEN "sh_theme" ELSE "sh_steps")
                /\ UNCHANGED exitCode
  /\ ShellFrame

\* lines 246-263: one turn of the loop over the steps
ShellStep ==
  /\ pc = "sh_steps"
  /\ LET step == setupSteps(shell.packageManager)[shell.step + 1] IN
       IF step.skipIfExists # {} /\ step.skipIfExists \subseteq shell.present
         THEN /\ shell' = [shell EXCEPT !.skippedCount = @ + 1, !.step = @ + 1]
              /\ pc' = (IF shell.step + 1 = 4 THEN "sh_theme" ELSE "sh_steps")
              /\ UNCHANGED <<cmds, exitCode>>
         ELSE \E result \in OutcomesOf(step.command) :
                /\ cmds' = Append(cmds, Entry(step.name, "step", step.command, result))
                /\ IF result.success
                     THEN /\ shell' = [shell EXCEPT !.successCount = @ + 1, !.step = @ + 1,
                                                    !.present = @ \cup step.installs]
                          /\ pc' = (IF shell.step + 1 = 4 THEN "sh_theme" ELSE "sh_steps")
                          /\ UNCHANGED exitCode
                     ELSE /\ pc' = "exit"
                          /\ exitCode' = 1
                          /\ UNCHANGED shell
  /\ ShellFrame

\* lines 185-227 and 266-269: the theme line is set in an existing .zshrc;
\* the write goes through, or Deno.writeTextFile throws
ShellTheme ==
  /\ pc = "sh_theme"
  /\ IF ".zshrc" \notin shell.present \/ "ZSH_THEME" \in shell.zshrc
       THEN UNCHANGED <<shell, cmds>>
       ELSE \E ok \in BOOLEAN :
              /\ cmds' = Append(cmds, Entry("theme", "config", "writeTextFile .zshrc",
                                         Result(ok, 0, <<>>, <<>>)))
              /\ shell' = [shell EXCEPT !.zshrc = IF ok THEN @ \cup {"ZSH_THEME"} ELSE @]
  /\ pc' = "sh_aliases"
  /\ UNCHANGED exitCode
  /\ ShellFrame

\* the appends of lines 84-107 and 109-133: .zshrc is created when missing
Appends(what, line, after) ==
  /\ IF ".zshrc" \in shell.present /\ line \in shell.zshrc
       THEN UNCHANGED <<shell, cmds>>
       ELSE \E ok \in BOOLEAN :
              /\ cmds' = Append(cmds, Entry(what, "config", "writeTextFile .zshrc",
                                         Result(ok, 0, <<>>, <<>>)))
              /\ shell' = [shell EXCEPT !.zshrc = IF ok THEN @ \cup {line} ELSE @,
                                        !.present = IF ok THEN @ \cup {".zshrc"} ELSE @]
  /\ pc' = after
  /\ UNCHANGED exitCode
  /\ ShellFrame

\* lines 272-275
ShellAliases == pc = "sh_aliases" /\ Appends("aliases", "source aliases.sh", "sh_path")

\* lines 278-281
ShellDenoPath == pc = "sh_path" /\ Appends("deno-path", "$HOME/.deno/bin", "sh_chsh")

\* lines 296-354: the default shell is changed; run() returns whatever chsh did
ShellChsh ==
  /\ pc = "sh_chsh"
  /\ \E result \in ShellOutcomes :
       cmds' = Append(cmds, Entry("chsh", "final", "sudo chsh -s $(which zsh)", result))
  /\ pc' = "sh_done"
  /\ exitCode' = 0
  /\ UNCHANGED shell
  /\ ShellFrame

InitShell ==
  /\ \E h \in Hosts : os = h[1] /\ arch = h[2]
  /\ path \in (IF os = "linux" THEN Paths ELSE {{}})
  /\ nApps = 0
  /\ env = UsualEnv
  /\ child = NoChild
  /\ hib = NoHib
  \* what the skip checks look for, and the theme line, the aliases line and
  \* the Deno PATH line that .zshrc can hold
  /\ \E present \in SUBSET {"zsh", ".oh-my-zsh", "powerlevel10k", ".zshrc"},
        lines \in SUBSET {"ZSH_THEME", "source aliases.sh", "$HOME/.deno/bin"} :
       /\ ".zshrc" \notin present => lines = {}
       /\ shell = [NoShell EXCEPT !.present = present, !.zshrc = lines]
  /\ Untracked
  /\ Idle
  /\ pkgManager = Undetected
  /\ idx = 0
  /\ app = NoApp
  /\ ip = NoCall
  /\ run = 1
  /\ pc = "sh_detect"

NextShell ==
  \/ ShellDetect
  \/ ShellStep
  \/ ShellTheme
  \/ ShellAliases
  \/ ShellDenoPath
  \/ ShellChsh

SpecShell == InitShell /\ [][NextShell]_vars

\* ------------------------------------ configure-hibernate-on-fedora-btrfs
\* lines 506-597: every check answers from the state of the host: the swap
\* is active, /var/swap is a subvolume with +C, /etc/fstab names the swap
\* file, the dracut file holds the resume line, the SELinux context is
\* defined, the pkla rule is written
isHibernationFullyConfigured(h) ==
  /\ h.active
  /\ h.subvolume = "subvolume" /\ h.cow
  /\ h.fstab > 0
  /\ h.dracut = "resume"
  /\ h.selinux
  /\ h.polkit = "rule"

HibEntry(command, ok) ==
  Entry(run, "hibernate", command, Result(ok, IF ok THEN 0 ELSE 1, <<>>, <<>>))

HibFrame ==
  UNCHANGED <<os, arch, path, nApps, env, child, shell, ip, hostInstalled, hostRepos,
              pkgManager, idx, app, hookQ, native, caught, buckets, needsReboot>>

\* the catch of lines 1114-1122
HibThrow == pc' = "exit" /\ exitCode' = 1
HibGoto(p) == pc' = p /\ UNCHANGED exitCode

\* lines 1056-1068: a host that is fully configured is only verified
HibStart ==
  /\ pc = "hb_start"
  /\ IF isHibernationFullyConfigured(hib)
       THEN \E dryRun \in BOOLEAN :
              /\ cmds' = Append(cmds, HibEntry("systemctl hibernate --dry-run", dryRun))
              /\ pc' = "hb_verified"
              /\ exitCode' = 0
       ELSE HibGoto("hb_preflight") /\ UNCHANGED cmds
  /\ UNCHANGED <<hib, run>>
  /\ HibFrame

\* CONFIG (lines 395-405); sizes are counted in MiB, of which a GiB (1024 ** 3
\* bytes) has 1024
maxSwapPercentageOfDisk == 20
minFreeDiskSpaceGB == 10
GiB == 1024

\* line 665: Math.round(ramBytes * CONFIG.swapSizeMultiplier), the multiplier
\* being 1.5
swapSizeBytes(ramBytes) == (3 * ramBytes + 1) \div 2

\* line 778: Math.ceil(swapSizeBytes / (1024 ** 3))
swapSizeGB(bytes) == (bytes + GiB - 1) \div GiB

\* lines 1085-1086: the answer, null when the input is closed, is y or yes in
\* any case
Confirmed(confirmation) ==
  LET lower == CASE confirmation = "Y" -> "y"
                 [] confirmation \in {"YES", "Yes"} -> "yes"
                 [] OTHER -> confirmation
  IN confirmation # Absent /\ lower \in {"y", "yes"}

\* lines 601-713 and 1071-1089: the pre-flight checks, then the confirmation.
\* The error thrown for uid 0 (line 607) is caught by the catch of line 612,
\* which logs a warning: the run goes on for root as for any other user.  Any
\* other check that fails (hib.unfit), a swap above the share of the disk
\* (676) or above the available space less the reserve (685) throws to main.
HibPreFlight ==
  /\ pc = "hb_preflight"
  /\ LET swap == swapSizeBytes(hib.ram) IN
       IF \/ hib.unfit # "none"
          \/ swap * 100 > maxSwapPercentageOfDisk * hib.total
          \/ swap > hib.available - minFreeDiskSpaceGB * GiB
         THEN HibThrow
         ELSE IF Confirmed(hib.answer)
           THEN HibGoto("hb_zram")
           ELSE pc' = "hb_cancelled" /\ exitCode' = 0
  /\ UNCHANGED <<hib, cmds, run>>
  /\ HibFrame

\* lines 720-753
removeZramIfEnabled ==
  /\ pc = "hb_zram"
  /\ IF hib.zram
       THEN /\ cmds' = Append(cmds, HibEntry("sudo swapoff /dev/zram* || true", TRUE))
            /\ hib' = [hib EXCEPT !.zram = FALSE]
       ELSE UNCHANGED <<hib, cmds>>
  /\ HibGoto("hb_resize")
  /\ UNCHANGED run
  /\ HibFrame

\* lines 758-772
restoreBtrfsFilesystem ==
  /\ pc = "hb_resize"
  /\ \E ok \in BOOLEAN :
       /\ cmds' = Append(cmds, HibEntry("sudo btrfs filesystem resize max /", ok))
       /\ IF ok THEN HibGoto("hb_subvol") ELSE HibThrow
  /\ UNCHANGED <<hib, run>>
  /\ HibFrame

\* lines 782-793
CreateSubvolume ==
  /\ pc = "hb_subvol"
  /\ IF hib.subvolume = "absent"
       THEN \E ok \in BOOLEAN :
              /\ cmds' = Append(cmds, HibEntry("sudo btrfs subvolume create /var/swap", ok))
              /\ hib' = [hib EXCEPT !.subvolume = IF ok THEN "subvolume" ELSE @]
              /\ IF ok THEN HibGoto("hb_cow") ELSE HibThrow
       ELSE HibGoto("hb_cow") /\ UNCHANGED <<hib, cmds>>
  /\ UNCHANGED run
  /\ HibFrame

\* lines 796-815: the +C attribute, then the tolerated restorecon
DisableCow ==
  /\ pc = "hb_cow"
  /\ IF ~hib.cow
       THEN \E ok \in BOOLEAN :
              /\ hib' = [hib EXCEPT !.cow = ok]
              /\ IF ok
                   THEN /\ \E labelled \in BOOLEAN :
                             cmds' = cmds \o <<HibEntry("sudo chattr +C /var/swap", TRUE),
                                               HibEntry("sudo restorecon /var/swap", labelled)>>
                        /\ HibGoto("hb_swapfile")
                   ELSE /\ cmds' = Append(cmds, HibEntry("sudo chattr +C /var/swap", FALSE))
                        /\ HibThrow
       ELSE /\ \E labelled \in BOOLEAN :
                 cmds' = Append(cmds, HibEntry("sudo restorecon /var/swap", labelled))
            /\ HibGoto("hb_swapfile")
            /\ UNCHANGED hib
  /\ UNCHANGED run
  /\ HibFrame

\* lines 818-842
CreateSwapFile ==
  /\ pc = "hb_swapfile"
  /\ IF ~hib.swapFile
       THEN \E ok \in BOOLEAN :
              /\ cmds' = Append(cmds,
                   HibEntry("sudo btrfs filesystem mkswapfile /var/swap/swapfile", ok))
              /\ hib' = IF ok
                          THEN LET size == swapSizeGB(swapSizeBytes(hib.ram)) IN
                               [hib EXCEPT !.swapFile = TRUE, !.swapSizeGB = size,
                                           !.available = @ - size * GiB]
                          ELSE hib
              /\ IF ok THEN HibGoto("hb_fstab") ELSE HibThrow
       ELSE HibGoto("hb_fstab") /\ UNCHANGED <<hib, cmds>>
  /\ UNCHANGED run
  /\ HibFrame

\* faulty variant: the line is appended without looking into /etc/fstab
AddToFstabUnchecked ==
  /\ pc = "hb_fstab"
  /\ \E ok \in BOOLEAN :
       /\ cmds' = Append(cmds, HibEntry("sudo tee --append /etc/fstab", ok))
       /\ hib' = [hib EXCEPT !.fstab = IF ok THEN @ + 1 ELSE @]
       /\ IF ok THEN HibGoto("hb_swapon") ELSE HibThrow
  /\ UNCHANGED run
  /\ HibFrame

\* lines 853-864
AddToFstab ==
  /\ pc = "hb_fstab"
  /\ IF hib.fstab > 0
       THEN HibGoto("hb_swapon") /\ UNCHANGED <<hib, cmds>>
       ELSE \E ok \in BOOLEAN :
              /\ cmds' = Append(cmds, HibEntry("sudo tee --append /etc/fstab", ok))
              /\ hib' = [hib EXCEPT !.fstab = IF ok THEN @ + 1 ELSE @]
              /\ IF ok THEN HibGoto("hb_swapon") ELSE HibThrow
  /\ UNCHANGED run
  /\ HibFrame

\* lines 867-886: swapon may end well and still leave the file inactive
ActivateSwap ==
  /\ pc = "hb_swapon"
  /\ IF ~hib.active
       THEN \E ok \in BOOLEAN, activated \in BOOLEAN :
              /\ cmds' = Append(cmds, HibEntry("sudo swapon --all --verbose", ok))
              /\ hib' = [hib EXCEPT !.active = ok /\ activated]
              /\ IF ok /\ activated THEN HibGoto("hb_dracut") ELSE HibThrow
       ELSE HibGoto("hb_dracut") /\ UNCHANGED <<hib, cmds>>
  /\ UNCHANGED run
  /\ HibFrame

\* lines 898-916: the resume line is written, then the initramfs is rebuilt
ConfigureDracut ==
  /\ pc = "hb_dracut"
  /\ IF hib.dracut # "resume"
       THEN \E ok \in BOOLEAN :
              /\ hib' = [hib EXCEPT !.dracut = IF ok THEN "resume" ELSE @]
              /\ IF ok
                   THEN \E rebuilt \in BOOLEAN :
                          /\ cmds' = cmds \o
                               <<HibEntry("sudo tee /etc/dracut.conf.d/resume.conf", TRUE),
                                 HibEntry("sudo dracut --force", rebuilt)>>
                          /\ IF rebuilt THEN HibGoto("hb_selinux") ELSE HibThrow
                   ELSE /\ cmds' = Append(cmds,
                             HibEntry("sudo tee /etc/dracut.conf.d/resume.conf", FALSE))
                        /\ HibThrow
       ELSE HibGoto("hb_selinux") /\ UNCHANGED <<hib, cmds>>
  /\ UNCHANGED run
  /\ HibFrame

\* lines 919-936: a context that is "already defined" is tolerated
ConfigureSELinux ==
  /\ pc = "hb_selinux"
  /\ IF ~hib.selinux
       THEN \E outcome \in {"added", "already defined", "failed"} :
              /\ hib' = [hib EXCEPT !.selinux = (outcome = "added")]
              /\ IF outcome = "failed"
                   THEN /\ cmds' = Append(cmds, HibEntry("sudo semanage fcontext --add", FALSE))
                        /\ HibThrow
                   ELSE /\ \E labelled \in BOOLEAN :
                             cmds' = cmds \o
                               <<HibEntry("sudo semanage fcontext --add", outcome = "added"),
                                 HibEntry("sudo restorecon -RF /var/swap", labelled)>>
                        /\ HibGoto("hb_polkit")
       ELSE HibGoto("hb_polkit") /\ UNCHANGED <<hib, cmds>>
  /\ UNCHANGED run
  /\ HibFrame

\* lines 944-984: the rule, then the restart of polkit
enableUserHibernationPermissions ==
  /\ pc = "hb_polkit"
  /\ \E made \in BOOLEAN, ok \in BOOLEAN, restarted \in BOOLEAN :
       LET restart == HibEntry("sudo systemctl restart polkit", restarted) IN
         IF hib.polkit = "rule"
           THEN /\ made /\ ok
                /\ cmds' = Append(cmds, restart)
                /\ UNCHANGED hib
                /\ IF restarted THEN HibGoto("hb_power") ELSE HibThrow
           ELSE IF ~made
             THEN /\ ok /\ restarted
                  /\ cmds' = Append(cmds, HibEntry("sudo mkdir -p 50-local.d", FALSE))
                  /\ UNCHANGED hib
                  /\ HibThrow
           ELSE IF ~ok
             THEN /\ restarted
                  /\ cmds' = cmds \o <<HibEntry("sudo mkdir -p 50-local.d", TRUE),
                                       HibEntry("sudo tee hibernate.pkla", FALSE)>>
                  /\ UNCHANGED hib
                  /\ HibThrow
           ELSE /\ cmds' = cmds \o <<HibEntry("sudo mkdir -p 50-local.d", TRUE),
                                     HibEntry("sudo tee hibernate.pkla", TRUE), restart>>
                /\ hib' = [hib EXCEPT !.polkit = "rule"]
                /\ IF restarted THEN HibGoto("hb_power") ELSE HibThrow
  /\ UNCHANGED run
  /\ HibFrame

\* lines 989-1004
restartPowerManagement ==
  /\ pc = "hb_power"
  /\ \E kde \in BOOLEAN, ok \in BOOLEAN :
       IF kde
         THEN cmds' = Append(cmds, HibEntry("systemctl --user restart plasma-powerdevil", ok))
         ELSE ok /\ UNCHANGED cmds
  /\ HibGoto("hb_verify")
  /\ UNCHANGED <<hib, run>>
  /\ HibFrame

\* lines 1009-1040 and 1101-1113
performVerificationTests ==
  /\ pc = "hb_verify"
  /\ IF ~hib.active
       THEN HibThrow /\ UNCHANGED cmds
       ELSE \E dryRun \in BOOLEAN :
              /\ cmds' = Append(cmds, HibEntry("systemctl hibernate --dry-run", dryRun))
              /\ pc' = "hb_done"
              /\ exitCode' = 0
  /\ UNCHANGED <<hib, run>>
  /\ HibFrame

\* the script is started again on the host the last run left
HibAgain ==
  /\ pc \in {"hb_verified", "hb_cancelled", "hb_done", "exit"}
  /\ run < MaxRuns
  /\ run' = run + 1
  /\ \E confirmation \in {"y", "n"} :
       hib' = [hib EXCEPT !.last = CASE pc = "hb_verified" -> "verified"
                                     [] pc = "hb_cancelled" -> "cancelled"
                                     [] pc = "hb_done" -> "configured"
                                     [] OTHER -> "failed",
                          !.answer = confirmation,
                          !.swapSizeGB = 0]
  /\ cmds' = <<>>
  /\ pc' = "hb_start"
  /\ exitCode' = -1
  /\ HibFrame

InitHib ==
  /\ os = "linux" /\ arch = "x86_64" /\ path = {} /\ nApps = 0
  /\ env = UsualEnv
  /\ child = NoChild
  /\ shell = NoShell
  \* /var/swap is absent, a plain directory or a subvolume; the files below
  \* it, the +C attribute and an active swap need what holds them; /etc/fstab
  \* holds no or one line with the swap file; the dracut file is absent, holds
  \* something else or the resume line; the pkla rule is absent or written;
  \* unfit names a failing pre-flight check; an ordinary user who accepts or
  \* declines, 1 GiB of RAM and a disk of 100 GiB with 50 GiB available
  /\ hib \in
       { h \in [ subvolume : {"absent", "directory", "subvolume"}, cow : BOOLEAN,
                 swapFile : BOOLEAN, fstab : {0, 1}, dracut : {"absent", "other", "resume"},
                 polkit : {"absent", "rule"}, active : BOOLEAN, selinux : BOOLEAN,
                 zram : BOOLEAN, unfit : {"none", "bios"}, last : {"none"},
                 root : {FALSE}, answer : {"y", "n"}, ram : {GiB}, total : {100 * GiB},
                 available : {50 * GiB}, swapSizeGB : {0} ] :
           /\ h.subvolume = "absent" => ~h.cow /\ ~h.swapFile
           /\ h.active => h.swapFile }
  /\ hostInstalled = {} /\ hostRepos = <<>>
  /\ ip = NoCall
  /\ run = 1
  /\ Idle
  /\ pkgManager = Undetected
  /\ idx = 0
  /\ app = NoApp
  /\ pc = "hb_start"

NextHib ==
  \/ HibStart
  \/ HibPreFlight
  \/ removeZramIfEnabled
  \/ restoreBtrfsFilesystem
  \/ CreateSubvolume
  \/ DisableCow
  \/ CreateSwapFile
  \/ AddToFstab
  \/ ActivateSwap
  \/ ConfigureDracut
  \/ ConfigureSELinux
  \/ enableUserHibernationPermissions
  \/ restartPowerManagement
  \/ performVerificationTests
  \/ HibAgain

SpecHib == InitHib /\ [][NextHib]_vars

\* the hibernation setup on hosts without any of its pieces: root and ordinary
\* users, every answer to the confirmation, RAM of up to MaxRam half
\* gibibytes, disks of 13 and 100 GiB with 11 to 13 GiB available
InitPre ==
  /\ os = "linux" /\ arch = "x86_64" /\ path = {} /\ nApps = 0
  /\ env = UsualEnv
  /\ child = NoChild
  /\ shell = NoShell
  /\ \E root \in BOOLEAN, unfit \in {"none", "bios"},
        confirmation \in {"y", "Y", "yes", "YES", "n", "", "yes!", Absent},
        half \in 1..MaxRam, total \in {13 * GiB, 100 * GiB},
        available \in {11 * GiB, 11 * GiB + 512, 12 * GiB, 12 * GiB + 512, 13 * GiB} :
       hib = [NoHib EXCEPT !.root = root, !.unfit = unfit, !.answer = confirmation,
                           !.ram = half * 512, !.total = total, !.available = available]
  /\ hostInstalled = {} /\ hostRepos = <<>>
  /\ ip = NoCall
  /\ run = 1
  /\ Idle
  /\ pkgManager = Undetected
  /\ idx = 0
  /\ app = NoApp
  /\ pc = "hb_start"

SpecPre == InitPre /\ [][NextHib]_vars

\* detection alone, on every OS family and every set of manager executables
InitDetect ==
  /\ os \in OsFamilies
  /\ arch = "x86_64"
  /\ path \in SUBSET Executables
  /\ nApps = 0
  /\ Usual
  /\ Untracked
  /\ Fresh

NextDetect == ReadCatalog \/ Detect

SpecDetect == InitDetect /\ [][NextDetect]_vars

TypeOK ==
  /\ pc \in {"read", "detect", "setup", "loop", "arch", "pre", "repo", "repo_key", "repo_check",
             "repo_add", "repo_refresh", "install", "flatpak", "flatpak_list",
             "flatpak_install", "flatpak_sync", "flatpak_retry", "post", "record", "next",
             "summary", "exit", "ip_call", "ip_winget", "ip_run", "ip_classify", "ip_ret",
             "rc_call", "rc_wait", "rc_ret", "rc_raised",
             "sh_detect", "sh_steps", "sh_theme", "sh_aliases", "sh_path", "sh_chsh",
             "sh_done",
             "hb_start", "hb_preflight", "hb_zram", "hb_resize", "hb_subvol",
             "hb_cow", "hb_swapfile", "hb_fstab", "hb_swapon", "hb_dracut", "hb_selinux",
             "hb_polkit", "hb_power", "hb_verify", "hb_verified", "hb_cancelled", "hb_done"}
  /\ idx \in 0..(MaxApps + MaxDetailedApps)

\* =========================================================== verification
\* the names in a bucket, and how often a name was placed
SuccessNames == { successApps[k] : k \in DOMAIN successApps }
SkippedNames == { skippedApps[k] : k \in DOMAIN skippedApps }
FailedNames == { failedApps[k].name : k \in DOMAIN failedApps }
FailuresOf(name) == { k \in DOMAIN failedApps : failedApps[k].name = name }
Placements(name) ==
  Cardinality({ k \in DOMAIN successApps : successApps[k] = name })
  + Cardinality({ k \in DOMAIN skippedApps : skippedApps[k] = name })
  + Cardinality(FailuresOf(name))
Placed == Len(successApps) + Len(skippedApps) + Len(failedApps)

\* the current application has just been placed in a bucket; cmds holds every
\* command that was issued for it
JustPlaced == pc = "next"
LoopOver == pc \in {"summary", "exit"} /\ pkgManager \in Managers

\* the entries of the log issued by a step of main
Issued(step) == { k \in DOMAIN cmds : cmds[k].step = step }
IssuedCmd(command) == { k \in DOMAIN cmds : cmds[k].cmd = command }
\* commands run through runCommand whose failure main tolerates
RepoQueries == {"zypper lr --name", "dnf repolist --enabled"}
\* a command run through runAppCommand has failed
AppCommandFailed ==
  \E k \in DOMAIN cmds :
    /\ cmds[k].step \in {"pre", "repo", "post"}
    /\ cmds[k].cmd \notin RepoQueries
    /\ ~cmds[k].res.success

\* a native installation failed and there is no usable fallback
NativeFailureRaised ==
  /\ \E k \in Issued("install") : ~cmds[k].res.success
  /\ ~(app.flatpak # Absent /\ os = "linux")
\* a flatpak install attempt failed for good: any failure but a first one
\* that reports "Nothing matches"
FlatpakFailureRaised ==
  \E k \in IssuedCmd("flatpak install") :
    /\ ~cmds[k].res.success
    /\ \/ ~Includes(cmds[k].res.stderr, NothingMatches)
       \/ \E j \in IssuedCmd("flatpak install") : j < k
RaisedInLog == AppCommandFailed \/ NativeFailureRaised \/ FlatpakFailureRaised

\* an application is being processed or has just been placed
InIteration == pc \notin {"read", "detect", "setup", "loop", "summary", "exit"}

\* C1: a failure is raised while an application is processed exactly when a
\* hook or repository command fails, the native installation fails without a
\* usable fallback, or a flatpak install attempt fails for good; it ends that
\* application, which is placed as exactly one (name, message) entry of the
\* failed list and in no other bucket; every entry of the catalog is placed,
\* and the loop reaches the summary.
C1_FailureIsolated ==
  /\ [](InIteration => (RaisedInLog <=> appFailed))
  /\ [](appFailed => pc \in {"record", "next"})
  /\ [](JustPlaced /\ appFailed =>
          /\ Cardinality(FailuresOf(app.name)) = 1
          /\ \A k \in FailuresOf(app.name) : failedApps[k].error = errorMsg
          /\ errorMsg # <<>>
          /\ app.name \notin SuccessNames \cup SkippedNames)
  /\ [](LoopOver => Placed = nApps)
  /\ (pc = "loop" ~> pc = "summary")

C1_Witness ==
  /\ pc = "summary"
  /\ nApps = 2
  /\ failedApps # <<>>
  /\ failedApps[1].name = 1
  /\ 2 \in SuccessNames

\* the allow-list of the application is present and lacks the host architecture
ListLacksHost(a, hostArch) ==
  /\ a.architectures.present
  /\ \A k \in DOMAIN a.architectures.items : a.architectures.items[k] # hostArch

SkippedOnly(name) ==
  /\ name \in SkippedNames
  /\ name \notin SuccessNames \cup FailedNames
  /\ Placements(name) = 1

\* C2 as stated: every application whose allow-list is present and lacks the
\* host architecture, the empty list included, is placed in the skipped bucket
\* only and no command is issued for it.
C2_Original ==
  /\ InIteration /\ ListLacksHost(app, arch) => cmds = <<>>
  /\ JustPlaced /\ ListLacksHost(app, arch) => SkippedOnly(app.name)

\* C2 amended: every application whose allow-list is non-empty and lacks the
\* host architecture is placed in the skipped bucket only and no command is
\* issued for it.
C2_SkippedOnly ==
  /\ InIteration /\ ListLacksHost(app, arch) /\ app.architectures.items # <<>>
       => cmds = <<>> /\ pc \in {"arch", "next"}
  /\ JustPlaced /\ ListLacksHost(app, arch) /\ app.architectures.items # <<>>
       => SkippedOnly(app.name)

C2_Witness ==
  /\ JustPlaced
  /\ app.architectures.items = <<"x86_64">>
  /\ arch = "aarch64"
  /\ app.flatpak # Absent
  /\ app.preInstallCommands.present
  /\ app.name \in SkippedNames

\* C3: the step that meets a non-empty allow-list without the host
\* architecture issues no command, leaves the reboot flag alone and appends
\* the application to the skipped list; nothing was issued for it before.
C3_SkipHasNoEffect ==
  [][ pc = "arch" /\ ListLacksHost(app, arch) /\ app.architectures.items # <<>>
        => /\ cmds = <<>> /\ cmds' = <<>>
           /\ needsReboot' = needsReboot
           /\ skippedApps' = Append(skippedApps, app.name)
           /\ UNCHANGED <<successApps, failedApps>>
           /\ pc' = "next" ]_vars

C3_Witness ==
  /\ JustPlaced
  /\ app.architectures.items = <<"x86_64">>
  /\ arch = "aarch64"
  /\ app.requiresReboot
  /\ HasPkgs(app, pkgManager)
  /\ pkgManager = "dnf"
  /\ skippedApps = <<app.name>>
  /\ ~needsReboot

IsPrefix(s, t) == Len(s) <= Len(t) /\ SubSeq(t, 1, Len(s)) = s

\* C4: when the loop is over every catalog entry's name occurs exactly once
\* in the three lists together, which hold as many entries as the catalog;
\* the lists are only ever appended to.
C4_PlacedOnce ==
  /\ [](LoopOver => /\ \A name \in 1..nApps : Placements(name) = 1
                    /\ Placed = nApps
                    /\ SuccessNames \cup SkippedNames \cup FailedNames = 1..nApps)
  /\ [][ /\ IsPrefix(successApps, successApps')
         /\ IsPrefix(skippedApps, skippedApps')
         /\ IsPrefix(failedApps, failedApps') ]_vars

C4_Witness ==
  /\ pc = "summary"
  /\ nApps = 2
  /\ Len(skippedApps) = 1
  /\ Len(failedApps) = 1

\* ---- what the log says about the native and the flatpak installation
Min(S) == CHOOSE x \in S : \A y \in S : x <= y
Max(S) == CHOOSE x \in S : \A y \in S : x >= y

NativeAttempted == Issued("install") # {}
NativeFailedInLog == \E k \in Issued("install") : ~cmds[k].res.success
NativeStderr == cmds[Max(Issued("install"))].res.stderr
FlatpakIssued == Issued("flatpak") # {}
FlatpakInstalls == IssuedCmd("flatpak install")
FlatpakSyncs == Issued("flatpak") \cap IssuedCmd("flatpak update --appstream")
LastFlatpak == cmds[Max(Issued("flatpak"))]
\* the flatpak path ended well: the identifier was listed, or an install succeeded
FlatpakSucceeded ==
  /\ FlatpakIssued
  /\ LastFlatpak.res.success
  /\ \/ LastFlatpak.cmd = "flatpak install"
     \/ LastFlatpak.cmd = "flatpak list" /\ Includes(LastFlatpak.res.stdout, <<app.flatpak>>)
\* the flatpak path ended with a failed install attempt
FlatpakFailed ==
  /\ FlatpakIssued
  /\ LastFlatpak.cmd = "flatpak install"
  /\ ~LastFlatpak.res.success
PostOk == \A k \in Issued("post") : cmds[k].res.success
PreOk == \A k \in Issued("pre") : cmds[k].res.success
FallbackUsable == app.flatpak # Absent /\ os = "linux"
NoNativeList ==
  \/ ~app.packages[pkgManager].present
  \/ app.packages[pkgManager].items = <<>>
TheFailure == failedApps[CHOOSE k \in FailuresOf(app.name) : TRUE].error
FailedOnly(name) ==
  /\ name \in FailedNames
  /\ name \notin SuccessNames \cup SkippedNames
  /\ Placements(name) = 1
SucceededOnly(name) ==
  /\ name \in SuccessNames
  /\ name \notin FailedNames \cup SkippedNames
  /\ Placements(name) = 1
\* the pre-install and repository steps raised no failure
ReachedInstall ==
  /\ app.name \notin SkippedNames
  /\ \A k \in Issued("pre") \cup Issued("repo") :
       cmds[k].res.success \/ cmds[k].cmd \in RepoQueries

\* C5 as stated: for each processed application a flatpak command is issued
\* if and only if it has a flatpak identifier, the host is Linux, and the
\* native installation was not attempted (no non-empty list) or failed.
C5_Original ==
  JustPlaced /\ app.name \notin SkippedNames =>
    (FlatpakIssued <=> FallbackUsable /\ (NoNativeList \/ NativeFailedInLog))

\* C5 amended: the same equivalence for each application whose pre-install
\* and repository steps completed without a failure.
C5_FlatpakOnlyAsFallback ==
  JustPlaced /\ ReachedInstall =>
    /\ FlatpakIssued <=> FallbackUsable /\ (NoNativeList \/ NativeFailedInLog)
    /\ NativeAttempted /\ ~NativeFailedInLog => ~FlatpakIssued

C5_Witness ==
  /\ JustPlaced
  /\ ReachedInstall
  /\ app.flatpak # Absent
  /\ os = "linux"
  /\ NativeAttempted
  /\ ~NativeFailedInLog
  /\ ~FlatpakIssued
  /\ app.name \in SuccessNames

\* the flatpak path starts right after the failed native installation
FallbackFollowsNative ==
  \E k \in Issued("install") :
    /\ ~cmds[k].res.success
    /\ k + 1 \in DOMAIN cmds
    /\ cmds[k + 1].cmd = "flatpak list"
PostHooksRun == Issued("post") # {} <=> app.postInstallCommands.items # <<>>

\* C6 as stated: when native installation fails for an application with a
\* flatpak identifier on Linux, the flatpak path is run next, and if it
\* succeeds the post-install commands are run and the application is recorded
\* as succeeded, not failed.
C6_Original ==
  JustPlaced /\ NativeFailedInLog /\ FallbackUsable =>
    /\ FallbackFollowsNative
    /\ FlatpakSucceeded => PostHooksRun /\ SucceededOnly(app.name)

\* C6 amended: ... if it succeeds the post-install commands are run, and the
\* application is recorded as succeeded unless one of them fails.
C6_FallbackRescues ==
  JustPlaced /\ NativeFailedInLog /\ FallbackUsable =>
    /\ FallbackFollowsNative
    /\ FlatpakSucceeded =>
         /\ PostHooksRun
         /\ PostOk => SucceededOnly(app.name)
         /\ ~PostOk => FailedOnly(app.name)

C6_Witness ==
  /\ JustPlaced
  /\ NativeFailedInLog
  /\ FallbackUsable
  /\ Cardinality(FlatpakInstalls) = 2
  /\ FlatpakSucceeded
  /\ Issued("post") # {}
  /\ app.name \in SuccessNames

\* C7: a native failure without a usable fallback (no flatpak identifier, or
\* not Linux) records the application as failed with the native failure as the
\* message; no flatpak command and no post-install command is issued.
C7_NativeFailureIsFinal ==
  JustPlaced /\ NativeFailedInLog /\ ~FallbackUsable =>
    /\ FailedOnly(app.name)
    /\ TheFailure = <<"Package installation failed: ">> \o NativeStderr
    /\ NativeStderr # <<>>
    /\ ~FlatpakIssued
    /\ Issued("post") = {}

C7_Witness ==
  /\ JustPlaced
  /\ NativeFailedInLog
  /\ app.flatpak # Absent
  /\ os # "linux"
  /\ app.postInstallCommands.items # <<>>
  /\ app.name \in FailedNames

\* C8: when the native installation and the flatpak fallback both fail, the
\* recorded message contains the native installer's stderr and the stderr of
\* the last flatpak install attempt.
C8_BothFailuresReported ==
  JustPlaced /\ NativeFailedInLog /\ FlatpakFailed =>
    /\ FailedOnly(app.name)
    /\ Includes(TheFailure, NativeStderr)
    /\ Includes(TheFailure, LastFlatpak.res.stderr)
    /\ NativeStderr # <<>> /\ LastFlatpak.res.stderr # <<>>
    /\ NativeStderr # LastFlatpak.res.stderr

C8_Witness ==
  /\ JustPlaced
  /\ NativeFailedInLog
  /\ FlatpakFailed
  /\ Cardinality(FlatpakInstalls) = 2
  /\ app.name \in FailedNames

\* C9: when the flatpak installation fails and the native installation was
\* never attempted, the recorded message is the flatpak failure alone: it
\* contains the flatpak stderr and no native part.
C9_FlatpakFailureAlone ==
  JustPlaced /\ ~NativeAttempted /\ FlatpakFailed =>
    /\ FailedOnly(app.name)
    /\ Includes(TheFailure, LastFlatpak.res.stderr)
    /\ LastFlatpak.res.stderr # <<>>
    /\ ~Includes(TheFailure, <<"Package installation failed: ">>)
    /\ \A k \in DOMAIN TheFailure :
         TheFailure[k] # "Both native package and Flatpak installation failed. Native: "

C9_Witness ==
  /\ JustPlaced
  /\ ~NativeAttempted
  /\ NoNativeList
  /\ FlatpakFailed
  /\ app.name \in FailedNames

\* C10: for one application flatpak install is issued at most twice and the
\* resync at most once; the resync followed by the second attempt happens
\* exactly when the first attempt failed with "Nothing matches" in its
\* stderr; any other first failure is final, and so is a failed second attempt.
FirstInstall == cmds[Min(FlatpakInstalls)]
ResyncThenRetry ==
  /\ Cardinality(FlatpakInstalls) = 2
  /\ Cardinality(FlatpakSyncs) = 1
  /\ \E k \in FlatpakInstalls : k + 1 \in FlatpakSyncs /\ k + 2 \in FlatpakInstalls

C10_OneResyncOneRetry ==
  /\ Cardinality(FlatpakInstalls) <= 2
  /\ Cardinality(FlatpakSyncs) <= 1
  /\ JustPlaced /\ FlatpakInstalls # {} =>
       /\ ResyncThenRetry <=>
            ~FirstInstall.res.success /\ Includes(FirstInstall.res.stderr, NothingMatches)
       /\ ~ResyncThenRetry => Cardinality(FlatpakInstalls) = 1 /\ FlatpakSyncs = {}
       /\ ~LastFlatpak.res.success =>
            /\ LastFlatpak.cmd = "flatpak install"
            /\ Max(Issued("flatpak")) = Len(cmds)
            /\ FailedOnly(app.name)

C10_Witness ==
  /\ JustPlaced
  /\ ResyncThenRetry
  /\ FlatpakFailed

\* ---- the scenario of a native installation with a flatpak fallback
CmdNames == [k \in DOMAIN cmds |-> cmds[k].cmd]
InstallRelatedCommands ==
  { InstallCommand(m) : m \in Managers } \cup {"flatpak install", "flatpak update --appstream"}
IsInstallRelated(e) == e.cmd \in InstallRelatedCommands
InstallRelated ==
  LET sel == SelectSeq(cmds, IsInstallRelated) IN [k \in DOMAIN sel |-> sel[k].cmd]
\* descriptor {name, apt: ["pkg"], flatpak: id} processed under apt on Linux; the
\* apt install failed and every flatpak install answered "Nothing matches"
ToolScenario ==
  /\ JustPlaced
  /\ os = "linux" /\ pkgManager = "apt"
  /\ ~app.architectures.present
  /\ ~app.preInstallCommands.present /\ ~app.postInstallCommands.present
  /\ app.repoUrl = Absent
  /\ app.packages["apt"] = Array(<<"pkg">>)
  /\ app.flatpak = "org.tool.App"
  /\ NativeFailedInLog
  /\ \A k \in FlatpakInstalls :
       ~cmds[k].res.success /\ Includes(cmds[k].res.stderr, NothingMatches)
ListedAsInstalled ==
  \E k \in IssuedCmd("flatpak list") :
    cmds[k].res.success /\ Includes(cmds[k].res.stdout, <<app.flatpak>>)

\* C11 as stated: in the scenario the install, flatpak install and resync
\* commands issued are exactly apt install, flatpak install, resync, flatpak
\* install, and the application is recorded as failed with both stderr texts.
C11_Original ==
  ToolScenario =>
    /\ InstallRelated = <<"sudo apt install -y", "flatpak install",
                          "flatpak update --appstream", "flatpak install">>
    /\ FailedOnly(app.name)
    /\ Includes(TheFailure, NativeStderr)
    /\ Includes(TheFailure, LastFlatpak.res.stderr)

\* C11 amended: in the scenario the failed apt install is followed by the
\* query of the installed flatpaks; when that query does not list the
\* identifier the commands issued are exactly apt install, flatpak list,
\* flatpak install, resync, flatpak install, all installs failing, and the
\* application is recorded as failed with a message containing the apt stderr
\* and the flatpak stderr; when it lists the identifier nothing more is issued
\* and the application is recorded as succeeded.
C11_ToolScenario ==
  ToolScenario =>
    /\ Len(cmds) >= 2
    /\ CmdNames[1] = "sudo apt install -y" /\ ~cmds[1].res.success
    /\ CmdNames[2] = "flatpak list"
    /\ ~ListedAsInstalled =>
         /\ CmdNames = <<"sudo apt install -y", "flatpak list", "flatpak install",
                         "flatpak update --appstream", "flatpak install">>
         /\ FailedOnly(app.name)
         /\ Includes(TheFailure, cmds[1].res.stderr)
         /\ Includes(TheFailure, cmds[5].res.stderr)
         /\ Includes(cmds[5].res.stderr, NothingMatches)
         /\ cmds[1].res.stderr # <<>>
    /\ ListedAsInstalled => Len(cmds) = 2 /\ SucceededOnly(app.name)

C11_Witness ==
  /\ ToolScenario
  /\ ~ListedAsInstalled
  /\ Len(cmds) = 5
  /\ app.name \in FailedNames

\* ---- hook commands
IsPre(e) == e.step = "pre"
IsPost(e) == e.step = "post"
PreIssued == LET sel == SelectSeq(cmds, IsPre) IN [k \in DOMAIN sel |-> sel[k].cmd]
PostIssued == LET sel == SelectSeq(cmds, IsPost) IN [k \in DOMAIN sel |-> sel[k].cmd]
HookFailed(step) == \E k \in Issued(step) : ~cmds[k].res.success
\* a failed hook command is the last command of the application and its error
\* is the recorded message
HookFailureIsFinal(step) ==
  \A k \in Issued(step) :
    ~cmds[k].res.success =>
      /\ k = Len(cmds)
      /\ FailedOnly(app.name)
      /\ TheFailure = CommandError(cmds[k].cmd, cmds[k].res)
      /\ Includes(TheFailure, <<cmds[k].cmd>>)
      /\ Includes(TheFailure, <<ToString(cmds[k].res.code)>>)
      /\ Includes(TheFailure, cmds[k].res.stderr)

\* C12: the pre-install commands issued are the listed ones in their order up
\* to the first that fails, and so are the post-install commands; a failed one
\* is the last command issued for the application, which is recorded as failed
\* with that command's error; without a failure the whole list is run.  For
\* post-install commands this holds after a successful native installation too.
C12_HooksAbortOnFirstFailure ==
  JustPlaced /\ app.name \notin SkippedNames =>
    LET pre == PreIssued
        post == PostIssued
        preFailed == HookFailed("pre")
        postFailed == HookFailed("post")
    IN /\ IsPrefix(pre, app.preInstallCommands.items)
       /\ IsPrefix(post, app.postInstallCommands.items)
       /\ preFailed => HookFailureIsFinal("pre") /\ Issued("pre") = 1..Len(cmds)
       /\ postFailed => HookFailureIsFinal("post")
       /\ ~preFailed => pre = app.preInstallCommands.items
       /\ ~postFailed /\ app.name \in SuccessNames => post = app.postInstallCommands.items
       /\ ~postFailed /\ app.name \notin SuccessNames => post = <<>>

C12_Witness ==
  /\ JustPlaced
  /\ Len(app.postInstallCommands.items) = 2
  /\ Len(app.preInstallCommands.items) = 2
  /\ PreIssued = app.preInstallCommands.items
  /\ NativeAttempted /\ ~NativeFailedInLog
  /\ Len(PostIssued) = 1
  /\ HookFailed("post")
  /\ app.name \in FailedNames

\* ---- sequencing
StepRank(step) ==
  CASE step = "pre" -> 1
    [] step = "repo" -> 2
    [] step = "install" -> 3
    [] step = "flatpak" -> 4
    [] step = "post" -> 5
    [] OTHER -> 0
\* the names placed so far, whatever the bucket
PlacedNames == SuccessNames \cup SkippedNames \cup FailedNames

\* C13: while an application is processed it is the catalog entry the loop
\* has reached, every earlier entry is already placed and no later one is,
\* every command issued belongs to it, and the steps of the commands issued
\* never go back in the order pre-install, repository, native install,
\* flatpak, post-install; the loop takes the next entry only when the current
\* one has been placed.
C13_OneAtATimeInOrder ==
  /\ [](InIteration =>
          /\ app.name = idx
          /\ PlacedNames = 1..(IF JustPlaced THEN idx ELSE idx - 1)
          /\ \A k \in DOMAIN cmds : cmds[k].app = app.name /\ StepRank(cmds[k].step) > 0
          /\ \A j, k \in DOMAIN cmds :
               j < k => StepRank(cmds[j].step) <= StepRank(cmds[k].step))
  /\ [][ idx' # idx => /\ idx' = idx + 1
                       /\ PlacedNames = 1..idx
                       /\ app'.name = idx'
                       /\ cmds' = <<>> ]_vars
  /\ [][ cmds' # cmds /\ InIteration' /\ pc # "loop" =>
            /\ Len(cmds') = Len(cmds) + 1
            /\ SubSeq(cmds', 1, Len(cmds)) = cmds
            /\ app.name \notin PlacedNames ]_vars

C13_Witness ==
  /\ JustPlaced
  /\ idx = 2
  /\ Issued("repo") # {}
  /\ Issued("install") # {}
  /\ Issued("flatpak") # {}
  /\ Issued("post") # {}
  /\ 1 \in FailedNames

\* ---- exit codes
Exited == pc = "exit"
\* C14 as stated: the exit code is set to a non-zero value only by the failed
\* read of the catalog or by a detection that finds no manager; a run that
\* read the catalog and detected a manager ends with exit code 0, whatever
\* the applications, the flatpak setup and the reboot command did.
C14_Original ==
  /\ [](Exited /\ pkgManager \in Managers => exitCode = 0)
  /\ [][ exitCode' # exitCode /\ exitCode' # 0 =>
            \/ pc = "read"
            \/ pc = "detect" /\ pkgManager' = NoManager ]_vars

\* ---- detection
NothingDone ==
  /\ cmds = <<>>
  /\ idx = 0 /\ app = NoApp
  /\ successApps = <<>> /\ failedApps = <<>> /\ skippedApps = <<>>

\* C15: a run whose detection returned none has exited with code 1 at once:
\* no command was issued, no catalog entry taken, no bucket written.  The
\* manager is assigned once, by the detection step, which is entered once,
\* before the flatpak setup and the first application; every application is
\* processed with that manager.
C15_DetectionFailureIsFatal ==
  /\ [](pkgManager = NoManager => Exited /\ exitCode = 1 /\ NothingDone)
  /\ [](pc \in {"read", "detect"} => pkgManager = Undetected /\ NothingDone)
  /\ [](pc \notin {"read", "detect", "exit"} => pkgManager \in Managers)
  /\ [](InIteration =>
          \A k \in Issued("install") : cmds[k].cmd = InstallCommand(pkgManager))
  /\ [][ pkgManager' # pkgManager =>
            /\ pc = "detect" /\ pkgManager = Undetected
            /\ pkgManager' = detectPackageManager(os, path) ]_vars
  /\ [][ pc' = "detect" => pc \in {"read", "detect"} ]_vars
  /\ [][ pc = "detect" => pc' # "detect" ]_vars

C15_Witness ==
  /\ Exited
  /\ pkgManager = NoManager
  /\ os = "linux"
  /\ nApps = 2
  /\ exitCode = 1

\* ---- detectPackageManager
Priority == <<"zypper", "dnf", "apt">>
Detected == pkgManager # Undetected
\* the first candidate of the priority order that is on the search path
FirstPresent(m) ==
  \E k \in DOMAIN Priority :
    /\ Priority[k] = m
    /\ m \in path
    /\ \A j \in 1..(k - 1) : Priority[j] \notin path

\* C16: the detected manager is winget on Windows and homebrew on macOS
\* whatever is on the search path; on Linux it is the first of zypper, dnf,
\* apt that is on the path, so zypper for a host with only zypper and dnf for
\* one with dnf and apt, and none when none of the three is there; none on
\* every other OS family.
C16_DetectionTable ==
  Detected =>
    /\ os = "windows" => pkgManager = "winget"
    /\ os = "darwin" => pkgManager = "homebrew"
    /\ os = "linux" =>
         /\ \A m \in LinuxManagers : pkgManager = m <=> FirstPresent(m)
         /\ pkgManager = NoManager <=> path \cap LinuxManagers = {}
         /\ pkgManager \in LinuxManagers \cup {NoManager}
         /\ path \cap LinuxManagers = {"zypper"} => pkgManager = "zypper"
         /\ path \cap LinuxManagers = {"dnf", "apt"} => pkgManager = "dnf"
    /\ os \notin {"windows", "darwin", "linux"} => pkgManager = NoManager

C16_Witness ==
  /\ Detected
  /\ os = "linux"
  /\ path = {"dnf", "apt", "brew"}
  /\ pkgManager = "dnf"

\* ---- installPackages on a host that has everything
Returned == pc = "ip_ret" /\ ip.returned
\* a later run, for a list whose packages were all on the host when it started
SecondRunAllInstalled ==
  /\ Returned
  /\ run >= 2
  /\ ip.packages # <<>>
  /\ Elements(ip.packages) \subseteq ip.before

\* C17 as stated: on a second run against a host where everything is
\* installed, a successful installPackages reports every identifier as already
\* installed and none as newly installed, whichever manager is active.
C17_Original ==
  SecondRunAllInstalled /\ ip.result.success =>
    /\ ip.alreadyInstalled = ip.packages
    /\ ip.newlyInstalled = <<>>

\* ---- repositories over two runs
AddCommands ==
  {"sudo zypper addrepo --refresh", "bash -c tee /etc/yum.repos.d/vscode.repo",
   "sudo add-apt-repository"}
AddsIssued == { k \in DOMAIN cmds : cmds[k].cmd \in AddCommands }
\* the repository an earlier addition for this application left on the host
Registered == \E k \in DOMAIN hostRepos : hostRepos[k] = AddedRepo(pkgManager, app)
NoDuplicate == \A j, k \in DOMAIN hostRepos : hostRepos[j] = hostRepos[k] => j = k
\* the registration query of this run failed
QueryFailed == \E k \in DOMAIN cmds : cmds[k].cmd \in RepoQueries /\ ~cmds[k].res.success
StepDone == pc = "install"
\* this step issues the addition command
AddStep == pc = "repo_add" /\ cmds' # cmds

\* C18 as stated: in a second run, with the repository of the application
\* registered by the first, no addition (zypper addrepo, dnf file write,
\* add-apt-repository) is performed and the host's repositories stay as they
\* were, without a duplicate.
C18_Original ==
  /\ [][ run >= 2 /\ Registered => ~AddStep /\ hostRepos' = hostRepos ]_vars
  /\ []NoDuplicate

\* C18 amended: in a second run, with the repository registered by the first,
\* zypper addrepo and the dnf file write are performed only if the
\* registration query of that run failed, while add-apt-repository is issued
\* again in every run that gets that far; the host's repositories stay as
\* they were, without a duplicate.
C18_NoSecondAddition ==
  /\ [][ run >= 2 /\ Registered /\ AddStep =>
            /\ AddsIssued = {}
            /\ pkgManager = "apt" \/ QueryFailed ]_vars
  /\ [](run >= 2 /\ StepDone /\ pkgManager = "apt" => Cardinality(AddsIssued) = 1)
  /\ [][ run >= 2 /\ Registered => hostRepos' = hostRepos ]_vars
  /\ []NoDuplicate

C18_Witness ==
  /\ run = 2
  /\ StepDone
  /\ pkgManager = "zypper"
  /\ hostRepos = <<AddedRepo("zypper", app)>>
  /\ AddsIssued = {}
  /\ Len(cmds) = 2

\* C19 as stated: when the repository step has completed without error for an
\* application with location U, a repository whose location is U is
\* registered on the host.
C19_Original ==
  StepDone /\ RepoApplies(app, pkgManager) =>
    \E k \in DOMAIN hostRepos : hostRepos[k].url = app.repoUrl

\* ---- the index refresh of the repository step
RefreshCommands == {"sudo zypper refresh", "sudo apt update"}
Refreshes == { k \in Issued("repo") : cmds[k].cmd \in RefreshCommands }
\* the repository step of the application ran and raised no failure
RepoStepCompleted ==
  /\ JustPlaced
  /\ RepoApplies(app, pkgManager)
  /\ ReachedInstall
\* a refresh was issued after every registration query and addition
RefreshedLast ==
  \E k \in Refreshes :
    \A j \in Issued("repo") :
      cmds[j].cmd \in RepoQueries \cup AddCommands => j < k

\* C20 as stated: whenever the repository step has completed without error
\* under zypper, dnf or apt, an index refresh command was issued after the
\* registration query or addition.
C20_Original == RepoStepCompleted => RefreshedLast

\* C20 amended: whenever the repository step has completed without error
\* under zypper or apt, exactly one index refresh (zypper refresh, apt update)
\* was issued, successfully, after the registration query and the addition,
\* whether the repository was added or found registered; under dnf no index
\* refresh command is issued.
C20_RefreshAfterRegistration ==
  RepoStepCompleted =>
    /\ pkgManager \in {"zypper", "apt"} =>
         /\ RefreshedLast
         /\ Cardinality(Refreshes) = 1
         /\ \A k \in Refreshes : cmds[k].res.success /\ k = Max(Issued("repo"))
    /\ pkgManager = "dnf" => Refreshes = {}

C20_Witness ==
  /\ RepoStepCompleted
  /\ pkgManager = "zypper"
  /\ AddsIssued = {}
  /\ RefreshedLast
  /\ Cardinality(Issued("repo")) = 2

\* ---- a failing repository command
\* the commands of the repository step that are run by runAppCommand
RepoAppCommands ==
  {"sudo rpm --import", "wget -qO- | sudo apt-key add -"}
    \cup AddCommands \cup RefreshCommands
RepoFailures == { k \in Issued("repo") : cmds[k].cmd \in RepoAppCommands /\ ~cmds[k].res.success }
RepoCommandFailed == RepoFailures # {}

\* C21: when a key import, a repository addition (or file write) or an index
\* refresh of the repository step fails, it is the last command issued for
\* the application: no native installation, no flatpak command and no
\* post-install command follows, and the application is recorded as failed
\* and nowhere else, with or without a flatpak identifier.
C21_RepoFailureAborts ==
  JustPlaced /\ RepoCommandFailed =>
    /\ FailedOnly(app.name)
    /\ Issued("install") = {}
    /\ Issued("flatpak") = {}
    /\ Issued("post") = {}
    /\ RepoFailures = {Len(cmds)}

C21_Witness ==
  /\ JustPlaced
  /\ pkgManager = "apt"
  /\ app.flatpak # Absent
  /\ HasPkgs(app, pkgManager)
  /\ app.postInstallCommands.items # <<>>
  /\ cmds # <<>>
  /\ cmds[Len(cmds)].cmd = "sudo apt update"
  /\ ~cmds[Len(cmds)].res.success
  /\ app.name \in FailedNames

\* C22 as stated: a failing repository command raises an error carrying the
\* command, the exit code and both streams; with a flatpak identifier usable
\* on the host the flatpak path is attempted after it and the application is
\* recorded as failed only if that path fails too.
C22_Original ==
  JustPlaced /\ RepoCommandFailed /\ FallbackUsable =>
    /\ FlatpakIssued
    /\ app.name \in FailedNames <=> FlatpakFailed

\* C22 amended: a failing repository command raises an error carrying the
\* command, the exit code and both streams, and that error is the recorded
\* failure of the application whether or not it has a flatpak identifier
\* usable on the host: no flatpak command is issued after it.
C22_RepoFailureHasNoFallback ==
  JustPlaced /\ RepoCommandFailed =>
    \A k \in RepoFailures :
      /\ app.name \in FailedNames
      /\ TheFailure = CommandError(cmds[k].cmd, cmds[k].res)
      /\ Includes(TheFailure, <<cmds[k].cmd>>)
      /\ Includes(TheFailure, <<ToString(cmds[k].res.code)>>)
      /\ Includes(TheFailure, <<"\nStderr: ">> \o cmds[k].res.stderr)
      /\ Includes(TheFailure, <<"\nStdout: ">> \o cmds[k].res.stdout)
      /\ FallbackUsable => ~FlatpakIssued

C22_Witness ==
  /\ JustPlaced
  /\ pkgManager = "dnf"
  /\ FallbackUsable
  /\ Len(cmds) = 1
  /\ cmds[1].cmd = "sudo rpm --import"
  /\ ~cmds[1].res.success
  /\ failedApps = <<[name |-> 1, error |-> CommandError("sudo rpm --import", Failed)]>>

\* ---- the reboot flag
\* C23: the reboot flag starts false and is raised only by the step that ends
\* the try block of an application with requiresReboot set, which no failure
\* has interrupted and which is placed in the succeeded list next; every
\* succeeded application with requiresReboot set has raised it, skipped and
\* failed ones leave it as it was, and once raised it stays raised to the end
\* of the run.
C23_RebootFlag ==
  /\ [](pc \in {"read", "detect", "setup"} => ~needsReboot)
  /\ [][ needsReboot' # needsReboot =>
            /\ ~needsReboot /\ needsReboot'
            /\ app.requiresReboot
            /\ pc = "post" /\ hookQ = <<>> /\ ~appFailed
            /\ app.name \notin PlacedNames
            /\ pc' = "record" /\ ~appFailed' ]_vars
  /\ [][ pc = "record" /\ ~appFailed =>
            successApps' = Append(successApps, app.name) /\ pc' = "next" ]_vars
  /\ [](JustPlaced /\ app.name \in SuccessNames /\ app.requiresReboot => needsReboot)
  /\ [](JustPlaced /\ idx = 1 =>
          (needsReboot <=> app.requiresReboot /\ app.name \in SuccessNames))
  /\ [][ needsReboot => needsReboot' ]_vars

C23_Witness ==
  /\ JustPlaced
  /\ idx = 2
  /\ needsReboot
  /\ ~app.requiresReboot
  /\ successApps = <<1, 2>>

\* ---- the reboot prompt
Prompts == IssuedCmd("confirm")
Reboots == IssuedCmd("sudo reboot")
AnsweredYes == \E k \in Prompts : cmds[k].res.success

\* C24: no prompt and no reboot command is issued before every catalog entry
\* has been placed and the summary printed; the run then ends with exactly
\* one prompt if the reboot flag is set and none otherwise, and with the
\* reboot command, once and after the prompt, exactly when the flag is set
\* and the answer was yes.
C24_PromptOnceAfterSummary ==
  /\ [](Prompts \cup Reboots # {} => Exited /\ Placed = nApps /\ idx = nApps)
  /\ [](Exited /\ pkgManager \in Managers =>
          /\ Cardinality(Prompts) = (IF needsReboot THEN 1 ELSE 0)
          /\ Reboots # {} <=> needsReboot /\ AnsweredYes
          /\ Cardinality(Reboots) <= 1
          /\ \A k \in Reboots : k - 1 \in Prompts)
  /\ [][ cmds' # cmds /\ Exited' => pc = "summary" ]_vars
  /\ [][ pc' = "summary" => pc \in {"loop", "summary"} ]_vars
  /\ [][ pc = "summary" => pc' # "summary" ]_vars

C24_Witness ==
  /\ Exited
  /\ nApps = 2
  /\ needsReboot
  /\ Cardinality(Prompts) = 1
  /\ ~AnsweredYes
  /\ Reboots = {}
  /\ failedApps # <<>>

\* ---- applications with nothing to install
NothingToInstall == NoNativeList /\ app.flatpak = Absent
OnlyHooksIssued == \A k \in DOMAIN cmds : cmds[k].step \in {"pre", "post"}
AllSucceeded == \A k \in DOMAIN cmds : cmds[k].res.success \/ cmds[k].cmd \in RepoQueries

\* C25 as stated: for an application whose list for the active manager is
\* absent or empty and which has no flatpak identifier, no command other
\* than its pre- and post-install commands is issued, and, once past the
\* architecture check, it is recorded as succeeded whenever those commands
\* succeed.
C25_Original ==
  JustPlaced /\ NothingToInstall =>
    /\ OnlyHooksIssued
    /\ app.name \notin SkippedNames /\ PreOk /\ PostOk => SucceededOnly(app.name)

\* C25 amended: for an application that is not skipped for its architecture,
\* whose list for the active manager is absent or empty and which has no
\* flatpak identifier, the only commands issued are its pre- and post-install
\* commands and, when it has a repository location and the manager is
\* zypper, dnf or apt, those of the repository step; it is recorded as
\* succeeded when all of them succeed (a failed registration query aside),
\* with its whole hook lists run, and as failed otherwise.
C25_NothingToInstall ==
  JustPlaced /\ NothingToInstall /\ app.name \notin SkippedNames =>
    /\ \A k \in DOMAIN cmds : cmds[k].step \in {"pre", "repo", "post"}
    /\ Issued("repo") # {} => RepoApplies(app, pkgManager)
    /\ ~RepoApplies(app, pkgManager) => OnlyHooksIssued
    /\ IF AllSucceeded
         THEN /\ SucceededOnly(app.name)
              /\ PreIssued = app.preInstallCommands.items
              /\ PostIssued = app.postInstallCommands.items
         ELSE FailedOnly(app.name)

C25_Witness ==
  /\ JustPlaced
  /\ app.packages[pkgManager] = Array(<<>>)
  /\ app.flatpak = Absent
  /\ os = "linux"
  /\ app.repoUrl = Absent
  /\ Len(PreIssued) = 2
  /\ Len(PostIssued) = 2
  /\ Len(cmds) = 4
  /\ app.name \in SuccessNames

\* ---- the Flathub setup
FlathubRegistered == \E k \in DOMAIN hostRepos : hostRepos[k] = Flathub
RemoteAdds == IssuedCmd("flatpak remote-add")
SetupIssued == Issued("setup")

\* C26 as stated: on Linux the setup step issues the remote-add command when
\* the flathub remote is not registered at the user level, followed by a
\* metadata sync when the add succeeds, and issues no add when the remote is
\* registered; the step is taken once, before the first application, never
\* between applications, and always leads to the loop over the catalog.
C26_Original ==
  /\ [][ pc = "setup" =>
            /\ ~FlathubRegistered =>
                 \E k \in DOMAIN cmds' :
                   /\ cmds'[k].cmd = "flatpak remote-add"
                   /\ cmds'[k].res.success =>
                        /\ k + 1 \in DOMAIN cmds'
                        /\ cmds'[k + 1].cmd = "flatpak update --appstream"
            /\ FlathubRegistered =>
                 \A k \in DOMAIN cmds' : cmds'[k].cmd # "flatpak remote-add"
            /\ pc' = "loop" /\ idx = 0 ]_vars
  /\ [][ pc' = "setup" => pc \in {"detect", "setup"} ]_vars
  /\ [](InIteration => SetupIssued = {})

\* ---- runCommand
RcReturned == pc = "rc_ret"
RcResult == cmds[1].res

\* C27: runCommand never raises and returns a result from wherever it is: a
\* child that ended with a non-zero code gives success = false, that code and
\* the decoded stderr (and stdout); a child that ended with code 0 gives
\* success = true; a process that could not be started gives success = false,
\* code -1, empty stdout and the error's message as stderr.
C27_RunCommandNeverRaises ==
  /\ pc # "rc_raised"
  /\ pc \in {"rc_call", "rc_wait"} => ENABLED NextRun
  /\ RcReturned =>
       /\ Len(cmds) = 1
       /\ DOMAIN RcResult = {"success", "code", "stdout", "stderr"}
       /\ child.spawned =>
            /\ RcResult.code = child.code
            /\ RcResult.success <=> child.code = 0
            /\ Len(RcResult.stderr) = Len(child.stderr)
            /\ Len(RcResult.stdout) = Len(child.stdout)
            /\ \A k \in DOMAIN child.stderr :
                 /\ child.stderr[k] = 104 => RcResult.stderr[k] = "h"
                 /\ child.stderr[k] = 105 => RcResult.stderr[k] = "i"
       /\ ~child.spawned =>
            /\ ~RcResult.success
            /\ RcResult.code = -1
            /\ RcResult.stdout = <<>>
            /\ RcResult.stderr = <<child.thrown.message>>

C27_Witness ==
  /\ RcReturned
  /\ ~child.spawned
  /\ RcResult = Result(FALSE, -1, <<>>, <<"No such file or directory (os error 2)">>)

\* ---- $USER and $HOME in hook commands
\* the value of an environment variable, the empty text when it is unset
ValueOf(variable) == IF variable.set THEN variable.value ELSE ""
Occurs(s, pat) == \E k \in 1..Len(s) : StartsWith(SubSeq(s, k, Len(s)), pat)
\* s with every occurrence of $USER and $HOME replaced, in one pass
RECURSIVE Substituted(_, _)
Substituted(s, e) ==
  IF s = "" THEN ""
  ELSE IF StartsWith(s, "$USER")
    THEN ValueOf(e.USER) \o Substituted(SubSeq(s, 6, Len(s)), e)
  ELSE IF StartsWith(s, "$HOME")
    THEN ValueOf(e.HOME) \o Substituted(SubSeq(s, 6, Len(s)), e)
  ELSE SubSeq(s, 1, 1) \o Substituted(SubSeq(s, 2, Len(s)), e)
Scenario == "mkdir -p $HOME/.config/$USER"
KeyCommands == {"sudo rpm --import", "wget -qO- | sudo apt-key add -"}

\* C28: every pre- and post-install command is issued as its string with each
\* occurrence of $USER and $HOME replaced by the value of the variable (the
\* empty text when unset), split at its spaces into program and arguments,
\* and nothing of the variables is left in it; "mkdir -p $HOME/.config/$USER"
\* with HOME=/home/a and USER=a is issued as mkdir -p /home/a/.config/a.  The
\* key URL, the repository URL, the package identifiers and the flatpak
\* identifier are handed to their commands as they are written.
C28_HookSubstitution ==
  InIteration =>
    /\ \A j \in DOMAIN PreIssued :
         PreIssued[j] = Substituted(app.preInstallCommands.items[j], env)
    /\ \A j \in DOMAIN PostIssued :
         PostIssued[j] = Substituted(app.postInstallCommands.items[j], env)
    /\ \A k \in DOMAIN cmds :
         /\ cmds[k].step \in {"pre", "post"} =>
              /\ ~Occurs(cmds[k].cmd, "$USER")
              /\ ~Occurs(cmds[k].cmd, "$HOME")
              /\ Join(cmds[k].args) = cmds[k].cmd
              /\ \A a \in DOMAIN cmds[k].args : ~Occurs(cmds[k].args[a], " ")
         /\ cmds[k].cmd \in KeyCommands => cmds[k].args = <<app.repoGpgKey>>
         /\ cmds[k].cmd \in AddCommands /\ pkgManager # "dnf" =>
              cmds[k].args = <<app.repoUrl>>
         /\ cmds[k].step = "install" => cmds[k].args = app.packages[pkgManager].items
         /\ cmds[k].cmd \in {"flatpak list", "flatpak install"} =>
              cmds[k].args = <<app.flatpak>>
    /\ env = UsualEnv /\ cmds # <<>> /\ app.preInstallCommands.items = <<Scenario>> =>
         /\ cmds[1].cmd = "mkdir -p /home/a/.config/a"
         /\ cmds[1].args = <<"mkdir", "-p", "/home/a/.config/a">>

C28_Witness ==
  /\ JustPlaced
  /\ env = [USER |-> Unset, HOME |-> Set("/home/a")]
  /\ app.name \in SuccessNames
  /\ Len(cmds) = 7
  /\ cmds[1].cmd = "mkdir -p /home/a/.config/"
  /\ cmds[2].args = <<"https://repo.example/$HOME.asc">>
  /\ cmds[5].args = <<"$USER-tools">>
  /\ cmds[6].cmd = "chown : /home/a"
  /\ cmds[7].args = <<"mkdir", "-p", "/home/a/.config/">>

\* ---- install-shell: the setup steps
StepNames == <<"update-packages", "install-zsh", "install-oh-my-zsh", "install-powerlevel10k">>
ComponentOf(name) ==
  CASE name = "install-zsh" -> "zsh"
    [] name = "install-oh-my-zsh" -> ".oh-my-zsh"
    [] name = "install-powerlevel10k" -> "powerlevel10k"
    [] OTHER -> "<none>"
Place(name) == CHOOSE i \in DOMAIN StepNames : StepNames[i] = name
StepEntries == { k \in DOMAIN cmds : cmds[k].step = "step" }
LaterWork == { k \in DOMAIN cmds : cmds[k].step \in {"config", "final"} }
\* the steps taken so far, executed or skipped
Taken == Cardinality(StepEntries) + shell.skippedCount
ShellLogOK ==
  /\ \A k \in StepEntries : cmds[k].app \in { StepNames[i] : i \in DOMAIN StepNames }
  /\ \A j, k \in StepEntries : j < k => Place(cmds[j].app) < Place(cmds[k].app)
  /\ \A k \in StepEntries, l \in LaterWork : k < l
  /\ \A k \in StepEntries :
       ~cmds[k].res.success => k = Len(cmds) /\ pc = "exit" /\ exitCode = 1
  /\ Taken > 0 => cmds # <<>> /\ cmds[1].app = "update-packages"
  /\ LaterWork # {} => Taken = 4
  /\ shell.successCount = Cardinality({ k \in StepEntries : cmds[k].res.success })

\* C29: run() takes the steps in list order; a step whose component is
\* already present is counted as skipped and issues no command, every other
\* step issues its command; a command that succeeds is counted and the next
\* step follows, the first command that fails ends the process with exit code
\* 1 as the last thing issued, so no later step, no configuration of .zshrc
\* and no change of the default shell follows it; update-packages is always
\* the first command issued.
C29_StepsUntilFirstFailure ==
  [][ /\ ShellLogOK'
      /\ pc = "sh_steps" /\ Taken < 4 =>
           LET name == StepNames[Taken + 1] IN
             IF ComponentOf(name) \in shell.present
               THEN /\ cmds' = cmds
                    /\ shell'.skippedCount = shell.skippedCount + 1
                    /\ shell'.successCount = shell.successCount
                    /\ pc' # "exit"
               ELSE /\ Len(cmds') = Len(cmds) + 1
                    /\ SubSeq(cmds', 1, Len(cmds)) = cmds
                    /\ cmds'[Len(cmds')].app = name
                    /\ cmds'[Len(cmds')].step = "step"
                    /\ shell'.skippedCount = shell.skippedCount
                    /\ IF cmds'[Len(cmds')].res.success
                         THEN pc' # "exit"
                         ELSE pc' = "exit" /\ exitCode' = 1 ]_vars

\* zsh is present, so its step is skipped, and the Oh My Zsh installer fails:
\* two steps were taken, one command after update-packages was issued, nothing else
C29_Witness ==
  /\ pc = "exit"
  /\ exitCode = 1
  /\ shell.skippedCount = 1
  /\ shell.successCount = 1
  /\ Len(cmds) = 2
  /\ cmds[1].app = "update-packages"
  /\ cmds[2].app = "install-oh-my-zsh"
  /\ ~cmds[2].res.success
  /\ "powerlevel10k" \notin shell.present

\* ---- hibernation setup: idempotency
SubvolumeCreate == "sudo btrfs subvolume create /var/swap"
SwapFileCreate == "sudo btrfs filesystem mkswapfile /var/swap/swapfile"
FstabAppend == "sudo tee --append /etc/fstab"
DracutWrite == "sudo tee /etc/dracut.conf.d/resume.conf"
PolkitWrite == "sudo tee hibernate.pkla"
PersistentWrites == {SubvolumeCreate, SwapFileCreate, FstabAppend, DracutWrite, PolkitWrite}
WritesIssued == { k \in DOMAIN cmds : cmds[k].cmd \in PersistentWrites }

\* C30: a persistent change is issued only on a host that lacks it: the swap
\* line is appended only to an /etc/fstab without it, the subvolume and the
\* swap file are created only when absent, the dracut resume file and the
\* polkit rule are written only when not configured; /etc/fstab never holds
\* more than one swap-file line, and the run that follows a run which
\* configured everything issues none of these changes.
C30_Idempotent ==
  [][ /\ hib'.fstab <= 1
      /\ (hib.last = "configured" /\ hib'.last = "configured") =>
           { k \in DOMAIN cmds' : cmds'[k].cmd \in PersistentWrites } = {}
      /\ \A k \in (Len(cmds) + 1)..Len(cmds') :
           /\ cmds'[k].cmd = FstabAppend => hib.fstab = 0
           /\ cmds'[k].cmd = SubvolumeCreate => hib.subvolume = "absent"
           /\ cmds'[k].cmd = SwapFileCreate => ~hib.swapFile
           /\ cmds'[k].cmd = DracutWrite => hib.dracut # "resume"
           /\ cmds'[k].cmd = PolkitWrite => hib.polkit # "rule" ]_vars

\* the second run on a host the first run configured goes through every step
\* again (the SELinux context is reported as not configured) and writes nothing
C30_Witness ==
  /\ run = 2
  /\ hib.last = "configured"
  /\ pc = "hb_done"
  /\ Len(cmds) >= 3
  /\ WritesIssued = {}
  /\ hib.fstab = 1
  /\ hib.dracut = "resume"
  /\ hib.polkit = "rule"

\* the allow-list of the application is absent or names the host architecture
ListAdmitsHost(a, hostArch) ==
  \/ ~a.architectures.present
  \/ \E k \in DOMAIN a.architectures.items : a.architectures.items[k] = hostArch

\* C31: the skipped list grows only at the architecture check, by the current
\* application and before any command was issued for it; an application whose
\* allow-list is absent or names the host architecture is never skipped; an
\* application that got past the architecture check is placed by the record
\* step in the succeeded or the failed list only; and a name that is in one
\* list stays in that list and enters no other.
C31_SkippedOnlyByArchCheck ==
  /\ [](InIteration /\ ListAdmitsHost(app, arch) => app.name \notin SkippedNames)
  /\ [](InIteration /\ (cmds # <<>> \/ pc \notin {"arch", "next"})
          => app.name \notin SkippedNames)
  /\ [][ /\ skippedApps' # skippedApps
             => /\ pc = "arch" /\ cmds = <<>>
                /\ skippedApps' = Append(skippedApps, app.name)
                /\ UNCHANGED <<successApps, failedApps>>
         /\ pc \notin {"arch", "next"} /\ pc' = "next"
             => /\ pc = "record"
                /\ app.name \in (SuccessNames' \cup FailedNames') \ SkippedNames'
                /\ Placements(app.name)' = 1
         /\ SuccessNames \subseteq SuccessNames' \ (FailedNames' \cup SkippedNames')
         /\ FailedNames \subseteq FailedNames' \ (SuccessNames' \cup SkippedNames')
         /\ SkippedNames \subseteq SkippedNames' \ (SuccessNames' \cup FailedNames') ]_vars

C31_Witness ==
  /\ JustPlaced
  /\ app.name = 2
  /\ skippedApps = <<1>>
  /\ ~app.architectures.present
  /\ cmds # <<>>
  /\ FailedNames = {2}
  /\ successApps = <<>>

\* a repository of the host has the short-name of the application as its name
NameRegistered == \E k \in DOMAIN hostRepos : hostRepos[k].name = RepoName(app)

\* C32 as stated: under zypper the step that follows the registration query
\* is the addition exactly when no repository of the host has the short-name
\* of the application as its name, and the addition is issued as
\* `zypper addrepo --refresh`.
C32_Original ==
  [][ pkgManager = "zypper" =>
        /\ pc = "repo_check" /\ pc' # pc => (pc' = "repo_add" <=> ~NameRegistered)
        /\ AddStep => /\ ~NameRegistered
                      /\ cmds'[Len(cmds')].cmd = "sudo zypper addrepo --refresh" ]_vars

\* the key import of the manager, and the commands of the repository step
\* that register something or read the registrations
ImportCommand == IF pkgManager = "dnf" THEN "sudo rpm --import" ELSE "wget -qO- | sudo apt-key add -"
KeyImports == { k \in Issued("repo") : cmds[k].cmd = ImportCommand }
KeyImportFailed == \E k \in KeyImports : ~cmds[k].res.success

\* C33: under dnf and apt, for an application with a repository and a signing
\* key, the first command of the repository step is the import of that key,
\* issued once, so that every query, addition and refresh of the step comes
\* after it; when the import fails it is the last command issued for the
\* application: nothing is added or written, nothing is installed, natively or
\* through flatpak, and the application is recorded as failed only.
C33_KeyImportFirst ==
  /\ InIteration /\ pkgManager \in {"dnf", "apt"} /\ RepoApplies(app, pkgManager)
       /\ app.repoGpgKey # Absent
       => /\ Issued("repo") # {} =>
               /\ KeyImports = {Min(Issued("repo"))}
               /\ cmds[Min(Issued("repo"))].args = <<app.repoGpgKey>>
          /\ pc \in {"repo_check", "repo_add", "repo_refresh", "install"} => KeyImports # {}
          /\ KeyImportFailed =>
               /\ KeyImports = {Len(cmds)}
               /\ AddsIssued = {}
               /\ Issued("install") \cup Issued("flatpak") \cup Issued("post") = {}
               /\ appFailed
               /\ JustPlaced => FailedOnly(app.name)
  /\ InIteration /\ app.repoGpgKey = Absent => KeyImports = {}

C33_Witness ==
  /\ JustPlaced
  /\ pkgManager = "apt"
  /\ app.repoGpgKey # Absent
  /\ HasPkgs(app, pkgManager)
  /\ FallbackUsable
  /\ app.preInstallCommands.items # <<>>
  /\ KeyImports = {Len(cmds)}
  /\ ~cmds[Len(cmds)].res.success
  /\ FailedNames = {app.name}

\* C34: when the listing of the flatpak path shows the identifier of the
\* application, that listing is the only flatpak command issued for it (no
\* install, no metadata resync) and what follows are the post-install
\* commands; the application is recorded as failed only if one of those
\* fails, and as succeeded otherwise, also after a failed native installation.
C34_AlreadyInstalledNoEffect ==
  /\ InIteration /\ app # NoApp /\ ListedAsInstalled =>
       /\ FlatpakInstalls = {} /\ FlatpakSyncs = {}
       /\ Cardinality(Issued("flatpak")) = 1
       /\ pc \in {"post", "record", "next"}
       /\ appFailed <=> ~PostOk
  /\ JustPlaced /\ ListedAsInstalled =>
       IF PostOk THEN SucceededOnly(app.name) ELSE FailedOnly(app.name)

C34_Witness ==
  /\ JustPlaced
  /\ ListedAsInstalled
  /\ NativeFailedInLog
  /\ app.postInstallCommands.items # <<>>
  /\ Cardinality(Issued("post")) = Len(app.postInstallCommands.items)
  /\ app.name \in SuccessNames

\* ---- the commands of one call of installPackages
\* the install commands of the call, in the order of issue, and their arguments
InstallCalls == { k \in DOMAIN cmds : cmds[k].cmd = InstallCommand(pkgManager) }
StatusQueries == { k \in DOMAIN cmds : cmds[k].cmd = "dnf list installed" }
FirstFailedCall == Min({ k \in InstallCalls : ~cmds[k].res.success } \cup {Len(ip.packages) + 1})

\* C35: a call with an empty list issues no command and returns success; with
\* a non-empty list zypper, dnf, apt and homebrew issue one install command,
\* the first command of the call, whose arguments are the list as given;
\* winget issues one install command per identifier, in list order, up to and
\* including the first that fails, and returns the result of that one, or
\* success when none fails.
C35_OneCallOrOnePerPackage ==
  Returned =>
    /\ ip.packages = <<>> => cmds = <<>> /\ ip.result.success
    /\ ip.packages # <<>> /\ pkgManager # "winget" =>
         /\ InstallCalls = {1}
         /\ cmds[1].args = ip.packages
    /\ ip.packages # <<>> /\ pkgManager = "winget" =>
         /\ InstallCalls = DOMAIN cmds
         /\ DOMAIN cmds = 1..Min({FirstFailedCall, Len(ip.packages)})
         /\ \A k \in DOMAIN cmds : cmds[k].args = <<ip.packages[k]>>
         /\ ip.result.success <=> FirstFailedCall > Len(ip.packages)
         /\ ~ip.result.success => ip.result = cmds[FirstFailedCall].res

C35_Witness ==
  /\ Returned
  /\ pkgManager = "winget"
  /\ Len(ip.packages) = 2
  /\ Len(cmds) = 1
  /\ ~ip.result.success

\* how often an identifier occurs in a list
Count(list, pkg) == Cardinality({ k \in DOMAIN list : list[k] = pkg })
\* the output of the install command names the identifier
Named(pkg) == Includes(ip.result.stdout, <<pkg>>)

\* C36: for zypper, dnf, apt and homebrew a failed install call is returned as
\* it is, with both lists empty and no query issued; after a successful call
\* of any manager the two lists together hold every requested identifier as
\* often as it was requested; and dnf queries the status of exactly the
\* requested identifiers its output does not name.
C36_ClassifyAfterSuccess ==
  Returned /\ ip.packages # <<>> =>
    /\ pkgManager # "winget" /\ ~cmds[1].res.success =>
         /\ ~ip.result.success
         /\ ip.result = cmds[1].res
         /\ ip.alreadyInstalled = <<>> /\ ip.newlyInstalled = <<>>
         /\ Len(cmds) = 1
    /\ ip.result.success =>
         \A pkg \in Packages :
           Count(ip.alreadyInstalled, pkg) + Count(ip.newlyInstalled, pkg)
             = Count(ip.packages, pkg)
    /\ pkgManager # "dnf" => StatusQueries = {}
    /\ pkgManager = "dnf" /\ ip.result.success =>
         [k \in 1..Cardinality(StatusQueries) |-> cmds[k + 1].args[1]]
           = SelectSeq(ip.packages, LAMBDA pkg : ~Named(pkg))

C36_Witness ==
  /\ Returned
  /\ pkgManager = "dnf"
  /\ Len(ip.packages) = 2
  /\ ip.result.success
  /\ Cardinality(StatusQueries) = 2
  /\ Len(ip.alreadyInstalled) = 1
  /\ Len(ip.newlyInstalled) = 1

\* ---- hibernation setup: pre-flight, confirmation and sizes
\* a configuration step is being executed or all of them were
InSteps ==
  pc \in {"hb_zram", "hb_resize", "hb_subvol", "hb_cow", "hb_swapfile", "hb_fstab",
          "hb_swapon", "hb_dracut", "hb_selinux", "hb_polkit", "hb_power", "hb_verify",
          "hb_done"}
\* the run has got past the start without finding the host fully configured
PastStart == pc \notin {"hb_start", "hb_preflight", "hb_verified"}

\* C37 as stated: a run by root that reaches the pre-flight checks ends there
\* with exit code 1: no confirmation is asked for, no configuration step is
\* executed and no command of one is issued.
C37_Original ==
  hib.root /\ PastStart => pc = "exit" /\ exitCode = 1 /\ cmds = <<>>

\* C38 as stated: a configuration step is executed, and one of its commands
\* issued, only in a run of an ordinary user on a host that passes every
\* other pre-flight check, after the answer y or yes in any case; a run that
\* ends on a failure ends with exit code 1 and executes nothing after it.
C38_Original ==
  /\ [](InSteps \/ (PastStart /\ cmds # <<>>) =>
          /\ ~hib.root
          /\ hib.unfit = "none"
          /\ hib.answer \in {"y", "Y", "yes", "YES", "Yes"})
  /\ [](pc = "exit" => exitCode = 1)
  /\ [][pc = "exit" => cmds' = cmds \/ pc' = "hb_start"]_vars

\* C39 as stated: when the swap file has been created in this run, its size
\* in whole GiB is at most maxSwapPercentageOfDisk per cent of the disk and
\* leaves minFreeDiskSpaceGB GiB of the space that was available before.
C39_Original ==
  hib.swapSizeGB > 0 =>
    /\ hib.swapSizeGB * GiB * 100 <= maxSwapPercentageOfDisk * hib.total
    /\ hib.available >= minFreeDiskSpaceGB * GiB

====
